---- MODULE Spec2Model ----
(***************************************************************************)
(* Model of my_dashboard (photography dashboard): weather scoring, golden  *)
(* hour windows, aurora prediction, the dashboard summary and the          *)
(* compression of hour lists into intervals for display.                   *)
(*                                                                         *)
(* Fixed-point encoding of the f64 values of the program:                  *)
(*   temperature, wind_speed   tenths (20.0 C = 200, 10.0 m/s = 100)       *)
(*   cloud_cover, humidity, precipitation_probability   whole percent      *)
(*   visibility                metres (8.0 km = 8000)                      *)
(*   hourly weather score      half points (7.0 = 14)                      *)
(*   overall_score             48ths (sum of half points / 24 hours / 2),  *)
(*                             so 8.0 = 384, 7.0 = 336, 10.0 = 480         *)
(*   aurora activity           thirds of a point (10.0 = 30)               *)
(*   visibility_probability    30ths (1.0 = 30, 0.8 = 24)                  *)
(*   instants                  ticks of 10 minutes of local time           *)
(*   latitude, longitude       whole degrees                               *)
(*   an interval text          its hour texts, each the two digits of {:02}*)
(***************************************************************************)
EXTENDS Integers, Sequences, FiniteSets, TLC

VARIABLES
    demo_mode,          \* DEMO_MODE of the process environment
    api_key,            \* WeatherService.api_key
    latitude,           \* GoldenHourService.latitude, whole degrees
    longitude,          \* GoldenHourService.longitude, whole degrees
    sun,                \* what the sunrise library answers for the coordinates
    swepam,             \* the records of the solar wind feed, oldest first
    wpc,                \* weather: position of the caller
    forecast,           \* weather: Result of get_weather_forecast
    generated_for,      \* weather: hour of day each sample was generated for
    analysis,           \* weather: WeatherAnalysis of the forecast
    hour_scores,        \* weather: the local hour_score of each loop iteration
    astrophotography,   \* weather: AstrophotographyAnalysis of the forecast
    gpc,                \* golden hour: position of the caller
    calculation_time,   \* golden hour: instant the service calculated with
    golden_hours,       \* golden hour: GoldenHourInfo
    lighting,           \* golden hour: get_current_lighting_condition result
    apc,                \* aurora: position inside predict_aurora
    solar_wind,         \* aurora: Result of fetch_solar_wind_data
    geomagnetic,        \* aurora: Result of fetch_geomagnetic_data
    activity,           \* aurora: the local activity of predict_aurora
    aurora,             \* aurora: Result of predict_aurora
    pc,                 \* dashboard: position inside generate_dashboard
    current_time,       \* dashboard: Local::now() taken at entry
    weather_analysis,   \* dashboard: local weather_analysis
    golden_hour_info,   \* dashboard: local golden_hour_info
    is_golden_hour_today, \* dashboard: local is_golden_hour_today
    aurora_result,      \* dashboard: what predict_aurora().await returned
    result,             \* dashboard: Result<DashboardSummary, _>
    cpc,                \* display: which output function has run
    hours,              \* display: the hour list handed to the output function
    intervals,          \* display: the local Vec intervals after the scan
    shown,              \* display: the text of the best-hours line
    rpc,                \* run: position inside main / generate_dashboard_output
    clock,              \* run: the clock, as Local::now() last showed it
    services,           \* run: the services constructed so far
    requests,           \* run: the data fetches awaited so far
    output,             \* run: the sections written so far
    run_summary,        \* run: Result of generate_dashboard
    locals,             \* run: weather_score, aurora_probability, is_golden_hour
    tips,               \* run: the arguments get_tips_for_weather was called with
    exit                \* run: how the run ended

envVars == <<demo_mode, api_key, latitude, longitude, sun, swepam>>
weatherVars == <<wpc, forecast, generated_for, analysis, hour_scores,
                 astrophotography>>
goldenVars == <<gpc, calculation_time, golden_hours, lighting>>
auroraVars == <<apc, solar_wind, geomagnetic, activity, aurora>>
dashVars == <<pc, current_time, weather_analysis, golden_hour_info,
              is_golden_hour_today, aurora_result, result>>
displayVars == <<cpc, hours, intervals, shown>>
runVars == <<rpc, clock, services, requests, output, run_summary, locals, tips,
             exit>>
vars == <<envVars, weatherVars, goldenVars, auroraVars, dashVars, displayVars,
          runVars>>

None == [none |-> TRUE]
Err == [ok |-> FALSE]
Ok(v) == [ok |-> TRUE, value |-> v]

Min(a, b) == IF a < b THEN a ELSE b
Max(a, b) == IF a > b THEN a ELSE b
Clamp(x, lo, hi) == IF x < lo THEN lo ELSE IF x > hi THEN hi ELSE x

RECURSIVE SortedSeq(_)
\* the ascending sequence of the numbers of a finite set
SortedSeq(S) ==
    IF S = {} THEN <<>>
    ELSE LET m == CHOOSE x \in S : \A y \in S : x <= y
         IN <<m>> \o SortedSeq(S \ {m})

Range(q) == {q[i] : i \in 1..Len(q)}

(***************************************************************************)
(* Weather: WeatherService::get_weather_forecast                           *)
(***************************************************************************)
HoursInForecast == 24

\* answers of the OpenWeather current-weather API the model draws from
ApiTemps == {50, 200, 270}
ApiWinds == {20, 95, 100}
ApiClouds == {0, 30, 65, 70, 75}
ApiVisibilities == {8000, 10000}
ApiHumidities == {60}
ApiDescriptions == {<<>>, <<"clear sky">>}
ApiResponses ==
    [temp : ApiTemps, humidity : ApiHumidities, wind : ApiWinds,
     clouds : ApiClouds, visibility : ApiVisibilities, weather : ApiDescriptions]
UtcHours == 0..23

UseMock == demo_mode \/ api_key = "demo_key"

TempVariation(hour_of_day) ==
    CASE hour_of_day \in 6..8 -> -20
      [] hour_of_day \in 9..11 -> -10
      [] hour_of_day \in 12..16 -> 0
      [] hour_of_day \in 17..19 -> -10
      [] hour_of_day \in 20..22 -> -20
      [] OTHER -> -30

HumidityVariation(hour_of_day) ==
    CASE hour_of_day \in 6..8 -> -5
      [] hour_of_day \in 12..16 -> 5
      [] hour_of_day \in 20..22 -> -3
      [] OTHER -> 0

WindVariation(hour_of_day) == IF hour_of_day \in 12..16 THEN 10 ELSE 0

CloudVariation(hour_of_day) ==
    CASE hour_of_day \in 6..8 -> -10
      [] hour_of_day \in 12..16 -> 5
      [] OTHER -> 0

\* the hour of day the sample at loop index hour is generated for
ApiHourOfDay(utc_hour, hour) == (utc_hour + hour) % 24

ApiWeatherData(resp, utc_hour, hour) ==
    LET hour_of_day == ApiHourOfDay(utc_hour, hour) IN
    [temperature |-> Clamp(resp.temp + TempVariation(hour_of_day), -200, 500),
     humidity |-> Clamp(resp.humidity + HumidityVariation(hour_of_day), 0, 100),
     wind_speed |-> Max(resp.wind + WindVariation(hour_of_day), 0),
     cloud_cover |-> Clamp(resp.clouds + CloudVariation(hour_of_day), 0, 100),
     visibility |-> resp.visibility,
     precipitation_probability |-> IF resp.clouds > 70 THEN 20 ELSE 5,
     description |-> IF resp.weather = <<>> THEN "unknown" ELSE resp.weather[1],
     timestamp |-> utc_hour + hour]

ApiForecast(resp, utc_hour) ==
    [i \in 1..HoursInForecast |-> ApiWeatherData(resp, utc_hour, i - 1)]

MockDescription(hour) ==
    CASE hour \in 6..8 -> "clear morning"
      [] hour \in 9..11 -> "sunny"
      [] hour \in 12..14 -> "partly cloudy"
      [] hour \in 15..17 -> "cloudy"
      [] hour \in 18..20 -> "sunset"
      [] OTHER -> "night"

MockWeatherData(utc_hour, hour) ==
    [temperature |-> 150 + hour * 5 - 60,
     humidity |-> 60 + ((hour * 2) % 40),
     wind_speed |-> 50 + ((hour * 3) % 150),
     cloud_cover |-> IF hour \notin 6..18 THEN 20 ELSE 60,
     visibility |-> 10000 - ((hour * 100) % 5000),
     precipitation_probability |-> IF hour > 12 /\ hour < 18 THEN 30 ELSE 5,
     description |-> MockDescription(hour),
     timestamp |-> utc_hour + hour]

MockForecast(utc_hour) ==
    [i \in 1..HoursInForecast |-> MockWeatherData(utc_hour, i - 1)]

(***************************************************************************)
(* Weather: analyze_weather_for_photography                                *)
(***************************************************************************)
CloudPoints(cloud_cover) ==
    IF cloud_cover < 30 THEN 6
    ELSE IF cloud_cover < 70 THEN 3
    ELSE 0

\* HourBonus as a bug would have it: the morning bonus from 5 o'clock on
HourBonusFromFive(hour) == IF hour \in 5..8 \/ hour \in 18..20 THEN 4 ELSE 0

HourBonus(hour) == IF hour \in 6..8 \/ hour \in 18..20 THEN 4 ELSE 0

\* hour_score of one loop iteration, in half points
HourScore(weather, hour) ==
    (IF weather.temperature >= 100 /\ weather.temperature <= 250 THEN 4 ELSE 0)
    + (IF weather.wind_speed < 100 THEN 4 ELSE 0)
    + CloudPoints(weather.cloud_cover)
    + (IF weather.visibility > 8000 THEN 4 ELSE 0)
    + (IF weather.precipitation_probability < 20 THEN 2 ELSE 0)
    + HourBonus(hour)

\* HourConcerns as a bug would have it: strong wind raises no concern
HourConcernsNoWind(weather) ==
    (IF weather.temperature >= 100 /\ weather.temperature <= 250
        THEN <<>> ELSE << <<"temperature", weather.temperature>> >>)
    \o (IF weather.cloud_cover < 70
        THEN <<>> ELSE << <<"cloud", weather.cloud_cover>> >>)
    \o (IF weather.visibility > 8000
        THEN <<>> ELSE << <<"visibility", weather.visibility>> >>)
    \o (IF weather.precipitation_probability < 20
        THEN <<>> ELSE << <<"precipitation", weather.precipitation_probability>> >>)

\* hour_concerns of one loop iteration, in the order they are pushed
HourConcerns(weather) ==
    (IF weather.temperature >= 100 /\ weather.temperature <= 250
        THEN <<>> ELSE << <<"temperature", weather.temperature>> >>)
    \o (IF weather.wind_speed < 100
        THEN <<>> ELSE << <<"wind", weather.wind_speed>> >>)
    \o (IF weather.cloud_cover < 70
        THEN <<>> ELSE << <<"cloud", weather.cloud_cover>> >>)
    \o (IF weather.visibility > 8000
        THEN <<>> ELSE << <<"visibility", weather.visibility>> >>)
    \o (IF weather.precipitation_probability < 20
        THEN <<>> ELSE << <<"precipitation", weather.precipitation_probability>> >>)

RECURSIVE AnalyzeLoopStrict(_, _, _)
\* AnalyzeLoop as a bug would have it: an hour qualifies only above 7 points
AnalyzeLoopStrict(hourly, i, acc) ==
    IF i > Len(hourly) THEN acc
    ELSE LET hour == i - 1
             hour_score == HourScore(hourly[i], hour)
             updated ==
                [overall_score |-> acc.overall_score + hour_score,
                 best_hours |-> IF hour_score > 14
                                   THEN Append(acc.best_hours, hour)
                                   ELSE acc.best_hours,
                 concerns |-> acc.concerns \o HourConcerns(hourly[i])]
         \* the accumulator is bound to its value before the next iteration
         IN CHOOSE done \in {AnalyzeLoopStrict(hourly, i + 1, next) : next \in {updated}} :
                TRUE

RECURSIVE AnalyzeLoop(_, _, _)
\* the for loop over forecast.hourly.iter().enumerate(), from index i on
AnalyzeLoop(hourly, i, acc) ==
    IF i > Len(hourly) THEN acc
    ELSE LET hour == i - 1
             hour_score == HourScore(hourly[i], hour)
             updated ==
                [overall_score |-> acc.overall_score + hour_score,
                 best_hours |-> IF hour_score >= 14
                                   THEN Append(acc.best_hours, hour)
                                   ELSE acc.best_hours,
                 concerns |-> acc.concerns \o HourConcerns(hourly[i])]
         \* the accumulator is bound to its value before the next iteration
         IN CHOOSE done \in {AnalyzeLoop(hourly, i + 1, next) : next \in {updated}} :
                TRUE

WeatherRecommendation(overall_score) ==
    IF overall_score >= 336 THEN "excellent conditions"
    ELSE IF overall_score >= 240 THEN "good conditions"
    ELSE "not ideal"

\* AnalyzeWeatherForPhotography as a bug would have it: the sum is divided by
\* the number of samples, not by 24
AnalyzeWeatherForPhotographyMean(hourly) ==
    LET done == AnalyzeLoop(hourly, 1,
                    [overall_score |-> 0, best_hours |-> <<>>, concerns |-> <<>>])
        mean == IF Len(hourly) = 0 THEN 0
                ELSE (HoursInForecast * done.overall_score) \div Len(hourly)
    IN [overall_score |-> mean,
        recommendations |-> <<WeatherRecommendation(mean)>>,
        best_hours |-> done.best_hours,
        concerns |-> done.concerns]

\* overall_score: the sum of the half points is the score in 48ths (/= 24.0)
AnalyzeWeatherForPhotography(hourly) ==
    LET done == AnalyzeLoop(hourly, 1,
                    [overall_score |-> 0, best_hours |-> <<>>, concerns |-> <<>>])
    IN [overall_score |-> done.overall_score,
        recommendations |-> <<WeatherRecommendation(done.overall_score)>>,
        best_hours |-> done.best_hours,
        concerns |-> done.concerns]

(***************************************************************************)
(* Weather: the calls of a client of WeatherService                        *)
(***************************************************************************)
WeatherIdle ==
    /\ wpc = "idle"
    /\ forecast = None
    /\ generated_for = <<>>
    /\ analysis = None
    /\ hour_scores = <<>>
    /\ astrophotography = None

\* get_weather_forecast, demo mode or demo_key: the mock forecast
GetWeatherForecastMock ==
    /\ wpc = "idle"
    /\ UseMock
    /\ \E utc_hour \in UtcHours :
          /\ forecast' = Ok(MockForecast(utc_hour))
          /\ generated_for' = [i \in 1..HoursInForecast |-> i - 1]
    /\ wpc' = "fetched"
    /\ UNCHANGED <<analysis, hour_scores, astrophotography>>

\* get_weather_forecast, real key: a forecast built from the current weather
GetWeatherForecastApi ==
    /\ wpc = "idle"
    /\ ~UseMock
    /\ \E resp \in ApiResponses, utc_hour \in UtcHours :
          /\ forecast' = Ok(ApiForecast(resp, utc_hour))
          /\ generated_for' =
                [i \in 1..HoursInForecast |-> ApiHourOfDay(utc_hour, i - 1)]
    /\ wpc' = "fetched"
    /\ UNCHANGED <<analysis, hour_scores, astrophotography>>

\* get_weather_forecast, real key: geocoding, HTTP status or JSON failure
GetWeatherForecastErr ==
    /\ wpc = "idle"
    /\ ~UseMock
    /\ forecast' = Err
    /\ wpc' = "failed"
    /\ UNCHANGED <<generated_for, analysis, hour_scores, astrophotography>>

AnalyzeForecast ==
    /\ wpc = "fetched"
    /\ analysis' = AnalyzeWeatherForPhotography(forecast.value)
    /\ hour_scores' = [i \in 1..Len(forecast.value) |->
                            HourScore(forecast.value[i], i - 1)]
    /\ wpc' = "analyzed"
    /\ UNCHANGED <<forecast, generated_for, astrophotography>>

\* the samples a caller of analyze_weather_for_photography puts in a forecast
MaxSamples == 3
SampleHours ==
    [temperature : {200}, humidity : {60}, wind_speed : {50},
     cloud_cover : {10, 30, 90}, visibility : {5000, 10000},
     precipitation_probability : {5}, description : {"clear"},
     timestamp : {0}]
\* forecasts of 0..MaxSamples samples, and of one day and one day and an hour
\* of the same sample
SampleForecasts ==
    UNION {[1..n -> SampleHours] : n \in 0..MaxSamples}
    \cup {[i \in 1..n |-> sample] :
              n \in {HoursInForecast, HoursInForecast + 1},
              sample \in SampleHours}

\* a caller builds a WeatherForecast of its own, as the unit tests do
BuildForecast ==
    /\ wpc = "idle"
    /\ \E hourly \in SampleForecasts :
          /\ forecast' = Ok(hourly)
          /\ generated_for' = [i \in 1..Len(hourly) |-> i - 1]
    /\ wpc' = "fetched"
    /\ UNCHANGED <<analysis, hour_scores, astrophotography>>

(***************************************************************************)
(* Weather: analyze_astrophotography_conditions                            *)
(***************************************************************************)
\* HourSuitable as a bug would have it: strong wind makes the hour unsuitable
HourSuitableCalm(weather) ==
    /\ ~(weather.cloud_cover > 20)
    /\ ~(weather.visibility < 10000)
    /\ ~(weather.precipitation_probability > 10)
    /\ ~(weather.wind_speed > 150)

\* hour_suitable of one iteration: cloud cover, visibility, precipitation
HourSuitable(weather) ==
    /\ ~(weather.cloud_cover > 20)
    /\ ~(weather.visibility < 10000)
    /\ ~(weather.precipitation_probability > 10)

\* hour_concerns of one iteration, in the order of the checks
AstroHourConcerns(weather) ==
    (IF weather.cloud_cover > 20
        THEN <<[concern |-> "cloud cover", value |-> weather.cloud_cover]>>
        ELSE <<>>)
    \o (IF weather.visibility < 10000
           THEN <<[concern |-> "visibility", value |-> weather.visibility]>>
           ELSE <<>>)
    \o (IF weather.precipitation_probability > 10
           THEN <<[concern |-> "precipitation",
                   value |-> weather.precipitation_probability]>>
           ELSE <<>>)
    \o (IF weather.wind_speed > 150
           THEN <<[concern |-> "wind", value |-> weather.wind_speed]>>
           ELSE <<>>)

\* is_night_hour of one iteration
IsNightHour(hour) == hour >= 22 \/ hour <= 4

RECURSIVE AstrophotographyLoop(_, _, _)
\* the for loop over forecast.hourly.iter().enumerate(), from index i on
AstrophotographyLoop(hourly, i, acc) ==
    IF i > Len(hourly) THEN acc
    ELSE LET hour == i - 1
             hour_suitable == HourSuitable(hourly[i])
             updated ==
                [is_suitable |-> acc.is_suitable /\ hour_suitable,
                 cloud_cover_issues |->
                     IF hour_suitable THEN acc.cloud_cover_issues
                     ELSE acc.cloud_cover_issues \o AstroHourConcerns(hourly[i]),
                 best_hours |->
                     IF hour_suitable /\ IsNightHour(hour)
                        THEN Append(acc.best_hours, hour)
                        ELSE acc.best_hours]
         \* the accumulator is bound to its value before the next iteration
         IN CHOOSE done \in {AstrophotographyLoop(hourly, i + 1, next) :
                                next \in {updated}} : TRUE

RECURSIVE CloudCoverSum(_, _)
\* forecast.hourly.iter().map(|w| w.cloud_cover).sum() over the first n samples
CloudCoverSum(hourly, n) ==
    IF n = 0 THEN 0 ELSE CloudCoverSum(hourly, n - 1) + hourly[n].cloud_cover

\* the division by hourly.len() of an empty forecast is 0.0 / 0.0, NaN, and
\* NaN > 50.0 is false
AverageCloudConcern(hourly) ==
    IF Len(hourly) > 0 /\ CloudCoverSum(hourly, Len(hourly)) > 50 * Len(hourly)
       THEN <<"high average cloud cover">>
       ELSE <<>>

AnalyzeAstrophotographyConditions(hourly) ==
    LET done == AstrophotographyLoop(hourly, 1,
                    [is_suitable |-> TRUE, cloud_cover_issues |-> <<>>,
                     best_hours |-> <<>>])
    IN [is_suitable |-> done.is_suitable,
        cloud_cover_issues |-> done.cloud_cover_issues,
        recommendations |->
            IF done.is_suitable
               THEN <<"excellent conditions", "find dark places", "use a tripod">>
               ELSE <<"conditions not suitable", "move the shoot to another day">>,
        best_hours |-> done.best_hours,
        concerns |-> AverageCloudConcern(hourly)]

\* the samples at the limits of the three checks, calm and windy
MaxNightSamples == 2
NightSampleHours ==
    [temperature : {200}, humidity : {60}, wind_speed : {50, 160},
     cloud_cover : {20, 21}, visibility : {9000, 10000},
     precipitation_probability : {10, 11}, description : {"clear"},
     timestamp : {0}]
\* the hours around the limits of the night
NightLimits == {4, 5, 21, 22}
\* forecasts of 0..MaxNightSamples samples, and forecasts of a day that are the
\* same in every hour but one
NightForecasts ==
    UNION {[1..n -> NightSampleHours] : n \in 0..MaxNightSamples}
    \cup {[i \in 1..HoursInForecast |-> IF i - 1 = odd THEN one ELSE other] :
              odd \in NightLimits, one \in NightSampleHours,
              other \in NightSampleHours}

\* a caller builds a WeatherForecast of its own, as the unit tests do
BuildNightForecast ==
    /\ wpc = "idle"
    /\ \E hourly \in NightForecasts :
          /\ forecast' = Ok(hourly)
          /\ generated_for' = [i \in 1..Len(hourly) |-> i - 1]
    /\ wpc' = "fetched"
    /\ UNCHANGED <<analysis, hour_scores, astrophotography>>

\* a call of analyze_astrophotography_conditions(&forecast)
AnalyzeAstrophotography ==
    /\ wpc = "fetched"
    /\ astrophotography' = AnalyzeAstrophotographyConditions(forecast.value)
    /\ wpc' = "analyze_astrophotography_conditions"
    /\ UNCHANGED <<forecast, generated_for, analysis, hour_scores>>

(***************************************************************************)
(* Golden hour: GoldenHourService                                          *)
(***************************************************************************)
Hour == 6
HalfHour == 3
TicksPerDay == 24 * Hour

\* the fixed clock of demo mode: a night instant of an earlier day
GetCurrentTime == 2 * Hour

\* Local::now(): the instants of the day the program runs on
Instants == TicksPerDay..(2 * TicksPerDay - 1)

DayStart(t) == t - (t % TicksPerDay)
\* DateTime::hour()
HourOf(t) == (t % TicksPerDay) \div Hour

MaxDayLen == 14
SunriseOffsets == {21, 33, 60}
DayLengths == (1..MaxDayLen) \cup {8 * Hour, 16 * Hour}
\* sunrise (ticks after local midnight) and day length the library yields
SunEvents == [rise : SunriseOffsets, length : DayLengths]
\* where the sun does not set or does not rise on the date, the hour angle of
\* the library has no solution: the events it yields, if it yields any, are a
\* whole day apart or coincide
PolarSunEvents == [rise : SunriseOffsets, length : {0, TicksPerDay}]
PolarDayOrNight == sun \in PolarSunEvents

\* <<latitude, longitude>> a GoldenHourService is constructed with
Coordinates ==
    {<<55, 37>>, <<69, 33>>, <<90, 180>>, <<-90, -180>>,
     <<91, 37>>, <<-91, 37>>, <<55, 181>>, <<55, -181>>}
\* sunrise::Coordinates::new(lat, lon) is Some
CoordinatesNew(lat, lon) ==
    lat >= -90 /\ lat <= 90 /\ lon >= -180 /\ lon <= 180
\* validate_coordinates as a bug would have it: the longitude is not looked at
ValidateCoordinatesLatitudeOnly(lat, lon) == lat >= -90 /\ lat <= 90

\* validate_coordinates of the binary
validate_coordinates(lat, lon) ==
    (lat >= -90 /\ lat <= 90) /\ (lon >= -180 /\ lon <= 180)

\* CalculateGoldenHours as a bug would have it: the morning window two hours long
\* after sunrise
CalculateGoldenHoursLongMorning(date) ==
    LET calculation_date == IF demo_mode THEN GetCurrentTime ELSE date
        sunrise == DayStart(calculation_date) + sun.rise
        sunset == sunrise + sun.length
    IN [sunrise |-> sunrise,
        sunset |-> sunset,
        golden_hour_morning_start |-> sunrise - Hour,
        golden_hour_morning_end |-> sunrise + 2 * Hour,
        golden_hour_evening_start |-> sunset - Hour,
        golden_hour_evening_end |-> sunset + Hour,
        blue_hour_morning_start |-> sunrise - HalfHour,
        blue_hour_morning_end |-> sunrise,
        blue_hour_evening_start |-> sunset,
        blue_hour_evening_end |-> sunset + HalfHour]

\* CalculateGoldenHours as a bug would have it: the morning blue hour a whole
\* hour long
CalculateGoldenHoursLongBlue(date) ==
    LET calculation_date == IF demo_mode THEN GetCurrentTime ELSE date
        sunrise == DayStart(calculation_date) + sun.rise
        sunset == sunrise + sun.length
    IN [sunrise |-> sunrise,
        sunset |-> sunset,
        golden_hour_morning_start |-> sunrise - Hour,
        golden_hour_morning_end |-> sunrise + Hour,
        golden_hour_evening_start |-> sunset - Hour,
        golden_hour_evening_end |-> sunset + Hour,
        blue_hour_morning_start |-> sunrise - Hour,
        blue_hour_morning_end |-> sunrise,
        blue_hour_evening_start |-> sunset,
        blue_hour_evening_end |-> sunset + HalfHour]

CalculateGoldenHours(date) ==
    LET calculation_date == IF demo_mode THEN GetCurrentTime ELSE date
        sunrise == DayStart(calculation_date) + sun.rise
        sunset == sunrise + sun.length
    IN [sunrise |-> sunrise,
        sunset |-> sunset,
        golden_hour_morning_start |-> sunrise - Hour,
        golden_hour_morning_end |-> sunrise + Hour,
        golden_hour_evening_start |-> sunset - Hour,
        golden_hour_evening_end |-> sunset + Hour,
        blue_hour_morning_start |-> sunrise - HalfHour,
        blue_hour_morning_end |-> sunrise,
        blue_hour_evening_start |-> sunset,
        blue_hour_evening_end |-> sunset + HalfHour]

LightingCalculationTime(time) == IF demo_mode THEN GetCurrentTime ELSE time

\* GetCurrentLightingCondition as a bug would have it: golden hour is tested
\* before blue hour
GetCurrentLightingConditionGoldenFirst(time) ==
    LET t == LightingCalculationTime(time)
        info == CalculateGoldenHours(t)
    IN IF t >= info.golden_hour_morning_start /\ t <= info.golden_hour_morning_end
          THEN "GoldenHourMorning"
       ELSE IF t >= info.golden_hour_evening_start /\ t <= info.golden_hour_evening_end
          THEN "GoldenHourEvening"
       ELSE IF t >= info.blue_hour_morning_start /\ t <= info.blue_hour_morning_end
          THEN "BlueHourMorning"
       ELSE IF t >= info.blue_hour_evening_start /\ t <= info.blue_hour_evening_end
          THEN "BlueHourEvening"
       ELSE IF t >= info.sunrise /\ t <= info.sunset
          THEN "Daytime"
       ELSE "Nighttime"

GetCurrentLightingCondition(time) ==
    LET t == LightingCalculationTime(time)
        info == CalculateGoldenHours(t)
    IN IF t >= info.blue_hour_morning_start /\ t <= info.blue_hour_morning_end
          THEN "BlueHourMorning"
       ELSE IF t >= info.blue_hour_evening_start /\ t <= info.blue_hour_evening_end
          THEN "BlueHourEvening"
       ELSE IF t >= info.golden_hour_morning_start /\ t <= info.golden_hour_morning_end
          THEN "GoldenHourMorning"
       ELSE IF t >= info.golden_hour_evening_start /\ t <= info.golden_hour_evening_end
          THEN "GoldenHourEvening"
       ELSE IF t >= info.sunrise /\ t <= info.sunset
          THEN "Daytime"
       ELSE "Nighttime"

GoldenIdle ==
    /\ gpc = "idle"
    /\ calculation_time = None
    /\ golden_hours = None
    /\ lighting = None

\* calculate_golden_hours panics: .expect("Invalid coordinates") on None, or
\* a panic out of the library or of .unwrap() on a day without sun events
CalculateGoldenHoursPanics(libraryPanics) ==
    \/ ~CoordinatesNew(latitude, longitude)
    \/ (PolarDayOrNight /\ libraryPanics)

\* a call of calculate_golden_hours(date); the function returns GoldenHourInfo,
\* it has no failure value
CallCalculateGoldenHours ==
    /\ gpc = "idle"
    /\ \E date \in Instants, libraryPanics \in BOOLEAN :
        /\ calculation_time' = IF demo_mode THEN GetCurrentTime ELSE date
        /\ lighting' = None
        /\ IF CalculateGoldenHoursPanics(libraryPanics)
              THEN /\ gpc' = "panicked"
                   /\ golden_hours' = None
              ELSE /\ gpc' = "calculate_golden_hours"
                   /\ golden_hours' = CalculateGoldenHours(date)

\* a call of get_current_lighting_condition(current_time)
CallGetCurrentLightingCondition ==
    /\ gpc = "idle"
    /\ \E time \in Instants, libraryPanics \in BOOLEAN :
        /\ calculation_time' = LightingCalculationTime(time)
        /\ IF CalculateGoldenHoursPanics(libraryPanics)
              THEN /\ gpc' = "panicked"
                   /\ golden_hours' = None
                   /\ lighting' = None
              ELSE /\ gpc' = "get_current_lighting_condition"
                   /\ golden_hours' = CalculateGoldenHours(LightingCalculationTime(time))
                   /\ lighting' = GetCurrentLightingCondition(time)

(***************************************************************************)
(* Aurora: calculate_aurora_activity and predict_aurora                    *)
(***************************************************************************)
KpBelowZero == 3
KpAbove == 11
\* kp_index as the feed gives it: any number, taken here at whole values
KpValues == (0 - KpBelowZero)..KpAbove
Speeds == {0, 350, 400, 500, 600, 700, 1000}
Densities == {0, 3, 5, 8, 10, 12, 20}
SolarWinds == [speed : Speeds, density : Densities]
Geomagnetics == [kp_index : KpValues]

\* CalculateAuroraActivity as a bug would have it: the upper bands of speed
\* and density include their limits 600 and 10
CalculateAuroraActivityInclusive(sw, geo) ==
    LET kp_part == Min(2 * geo.kp_index, 18)
        speed_part == IF sw.speed >= 600 THEN 6
                      ELSE IF sw.speed > 400 THEN 3 ELSE 0
        density_part == IF sw.density >= 10 THEN 6
                        ELSE IF sw.density > 5 THEN 3 ELSE 0
    IN Min(kp_part + speed_part + density_part, 30)

\* activity in thirds of a point: (kp / 9).min(1) * 6 is min(2 kp, 18) thirds
CalculateAuroraActivity(sw, geo) ==
    LET kp_part == Min(2 * geo.kp_index, 18)
        speed_part == IF sw.speed > 600 THEN 6
                      ELSE IF sw.speed > 400 THEN 3 ELSE 0
        density_part == IF sw.density > 10 THEN 6
                        ELSE IF sw.density > 5 THEN 3 ELSE 0
    IN Min(kp_part + speed_part + density_part, 30)

\* (activity / 10).min(1.0), in 30ths
AuroraProbability(act) == Min(act, 30)

\* IntensityLevel as a bug would have it: the thresholds are inclusive
IntensityLevelInclusive(probability) ==
    IF probability >= 24 THEN "VeryHigh"
    ELSE IF probability >= 18 THEN "High"
    ELSE IF probability >= 12 THEN "Moderate"
    ELSE IF probability >= 6 THEN "Low"
    ELSE "Minimal"

IntensityLevel(probability) ==
    IF probability > 24 THEN "VeryHigh"
    ELSE IF probability > 18 THEN "High"
    ELSE IF probability > 12 THEN "Moderate"
    ELSE IF probability > 6 THEN "Low"
    ELSE "Minimal"

AuroraConditions(probability) ==
    IF probability > 18 THEN "excellent viewing"
    ELSE IF probability > 12 THEN "good, aurora possible"
    ELSE IF probability > 6 THEN "aurora unlikely"
    ELSE "poor viewing"

BestViewingHours == <<22, 23, 0, 1, 2, 3, 4, 5>>

\* the AuroraForecast predict_aurora builds once both fetches succeeded
AuroraForecastOf(sw, geo) ==
    LET probability == AuroraProbability(CalculateAuroraActivity(sw, geo))
    IN [visibility_probability |-> probability,
        intensity_level |-> IntensityLevel(probability),
        best_viewing_hours |-> BestViewingHours,
        conditions |-> AuroraConditions(probability)]

AuroraIdle ==
    /\ apc = "start"
    /\ solar_wind = None
    /\ geomagnetic = None
    /\ activity = None
    /\ aurora = None

\* predict_aurora: fetch_solar_wind_data().await?
FetchSolarWindOk ==
    /\ apc = "start"
    /\ \E sw \in SolarWinds : solar_wind' = Ok(sw)
    /\ apc' = "solar_wind_fetched"
    /\ UNCHANGED <<geomagnetic, activity, aurora>>

FetchSolarWindErr ==
    /\ apc = "start"
    /\ solar_wind' = Err
    /\ aurora' = Err
    /\ apc' = "done"
    /\ UNCHANGED <<geomagnetic, activity>>

\* predict_aurora: fetch_geomagnetic_data().await? and the rest of the body
FetchGeomagneticOk ==
    /\ apc = "solar_wind_fetched"
    /\ \E geo \in Geomagnetics :
          /\ geomagnetic' = Ok(geo)
          /\ activity' = CalculateAuroraActivity(solar_wind.value, geo)
          /\ aurora' = Ok(AuroraForecastOf(solar_wind.value, geo))
    /\ apc' = "done"
    /\ UNCHANGED solar_wind

FetchGeomagneticErr ==
    /\ apc = "solar_wind_fetched"
    /\ geomagnetic' = Err
    /\ aurora' = Err
    /\ apc' = "done"
    /\ UNCHANGED <<solar_wind, activity>>

(***************************************************************************)
(* Aurora: fetch_solar_wind_data on the records of the feed                *)
(***************************************************************************)
\* the number of records at the end of the feed that are looked at
LastRecords == 50

Some(v) == [some |-> TRUE, value |-> v]
NoValue == [some |-> FALSE]

\* what makes a record of the feed invalid
InvalidKinds == {"dsflag", "dens", "speed", "temperature"}

\* record i of a feed whose valid records are those of V; the speed of a
\* record tells its position in the feed
SwepamRecord(i, V, kind, parses) ==
    [time_tag_parses |-> parses,
     dsflag |-> IF i \notin V /\ kind = "dsflag" THEN 1 ELSE 0,
     dens |-> IF i \notin V /\ kind = "dens" THEN NoValue ELSE Some(5),
     speed |-> IF i \notin V /\ kind = "speed" THEN NoValue ELSE Some(300 + i),
     temperature |-> IF i \notin V /\ kind = "temperature"
                        THEN NoValue ELSE Some(100000)]

\* feed lengths around the limit of LastRecords, and the positions at the
\* ends of the feed and of the window where valid records are placed
FeedLengths == {1, 3, LastRecords, LastRecords + 1, LastRecords + 2}
ValidPositions(n) ==
    {i \in 1..n : i <= 2 \/ i >= n - 1
                     \/ (i >= n - LastRecords /\ i <= n - LastRecords + 2)}
FeedsOfLength(n) ==
    {[i \in 1..n |-> SwepamRecord(i, V, kind, parses)] :
        V \in SUBSET ValidPositions(n), kind \in InvalidKinds, parses \in BOOLEAN}
SwepamFeeds == {<<>>} \cup UNION {FeedsOfLength(n) : n \in FeedLengths}

\* the closure of find
IsValidRecord(r) ==
    r.dsflag = 0 /\ r.dens.some /\ r.speed.some /\ r.temperature.some

\* start_idx, as a position counted from 1
StartIdx(all_records) ==
    IF Len(all_records) > LastRecords THEN Len(all_records) - LastRecords + 1
    ELSE 1

\* what the comment above find announces: the position of the last valid
\* record of the slice, 0 when there is none
FindLastRecord(all_records) ==
    LET valid == {i \in StartIdx(all_records)..Len(all_records) :
                     IsValidRecord(all_records[i])}
    IN IF valid = {} THEN 0
       ELSE CHOOSE i \in valid : \A j \in valid : j <= i

\* records.iter().find(..): the position of the first record of the slice
\* that is valid, 0 when there is none
FindRecord(all_records) ==
    LET valid == {i \in StartIdx(all_records)..Len(all_records) :
                     IsValidRecord(all_records[i])}
    IN IF valid = {} THEN 0
       ELSE CHOOSE i \in valid : \A j \in valid : i <= j

Failure(message) == [ok |-> FALSE, error |-> message]

\* fetch_solar_wind_data once the body of the answer has been parsed
FetchSolarWindData(all_records) ==
    IF all_records = <<>> THEN Failure("No solar wind data available")
    ELSE LET found == FindRecord(all_records) IN
         IF found = 0 THEN Failure("No valid solar wind data found")
         ELSE LET latest_record == all_records[found] IN
              IF ~latest_record.time_tag_parses
                 THEN Failure("Failed to parse timestamp")
              ELSE Ok([speed |-> latest_record.speed.value,
                       density |-> latest_record.dens.value,
                       temperature |-> latest_record.temperature.value])

\* the request fails, the status is not a success or the body is not JSON
FetchSolarWindDataRequestErr ==
    /\ apc = "start"
    /\ \E message \in {"HTTP", "Failed to parse solar wind JSON"} :
          solar_wind' = Failure(message)
    /\ apc' = "fetch_solar_wind_data"
    /\ UNCHANGED <<geomagnetic, activity, aurora>>

\* the feed answers with its records
FetchSolarWindDataParsed ==
    /\ apc = "start"
    /\ solar_wind' = FetchSolarWindData(swepam)
    /\ apc' = "fetch_solar_wind_data"
    /\ UNCHANGED <<geomagnetic, activity, aurora>>

(***************************************************************************)
(* Dashboard: PhotographyDashboard                                         *)
(***************************************************************************)
\* IsGoldenHourToday as a bug would have it: the windows are open at their ends
IsGoldenHourTodayEndExclusive(info, time) ==
    \/ (time >= info.golden_hour_morning_start /\ time < info.golden_hour_morning_end)
    \/ (time >= info.golden_hour_evening_start /\ time < info.golden_hour_evening_end)

IsGoldenHourToday(info, time) ==
    \/ (time >= info.golden_hour_morning_start /\ time <= info.golden_hour_morning_end)
    \/ (time >= info.golden_hour_evening_start /\ time <= info.golden_hour_evening_end)

\* DetermineOverallRecommendation as a bug would have it: the top text does
\* not need the golden hour
DetermineOverallRecommendationNoGolden(weather_score, golden) ==
    IF weather_score >= 384 THEN "excellent"
    ELSE IF weather_score >= 336 THEN "good"
    ELSE IF weather_score >= 240 THEN "moderate"
    ELSE "difficult"

DetermineOverallRecommendation(weather_score, golden) ==
    IF weather_score >= 384 /\ golden THEN "excellent"
    ELSE IF weather_score >= 336 THEN "good"
    ELSE IF weather_score >= 240 THEN "moderate"
    ELSE "difficult"

WeatherHighlights(overall_score) ==
    IF overall_score >= 384 THEN <<"excellent weather">>
    ELSE IF overall_score >= 288 THEN <<"good weather">>
    ELSE <<>>

\* WeatherWarnings as a bug would have it: 6 points exactly still warn
WeatherWarningsUpToSix(overall_score) ==
    IF overall_score > 288 THEN <<>> ELSE <<"weather not ideal">>

WeatherWarnings(overall_score) ==
    IF overall_score >= 288 THEN <<>> ELSE <<"weather not ideal">>

GoldenHighlights(info, golden, time) ==
    IF golden THEN <<"golden hour today">>
    ELSE IF HourOf(time) >= HourOf(info.golden_hour_morning_start)
            /\ HourOf(time) <= HourOf(info.golden_hour_morning_end)
         THEN <<"golden hour now, morning">>
    ELSE IF HourOf(time) >= HourOf(info.golden_hour_evening_start)
            /\ HourOf(time) <= HourOf(info.golden_hour_evening_end)
         THEN <<"golden hour now, evening">>
    ELSE <<>>

BestShootingHours(wa) == wa.best_hours

CreateSummary(wa, info, golden, time, aurora_probability) ==
    [overall_recommendation |->
         DetermineOverallRecommendation(wa.overall_score, golden),
     weather_score |-> wa.overall_score,
     aurora_probability |-> aurora_probability,
     is_golden_hour_today |-> golden,
     best_shooting_hours |-> BestShootingHours(wa),
     key_highlights |->
         WeatherHighlights(wa.overall_score) \o GoldenHighlights(info, golden, time),
     warnings |-> WeatherWarnings(wa.overall_score)]

\* the inputs the dashboard run draws from
\* the second set holds answers whose forecasts score exactly 5, 6, 7 and 8
DashApiResponses ==
    [temp : {200, 270}, humidity : ApiHumidities, wind : {20, 100},
     clouds : {0, 65, 75}, visibility : {10000}, weather : {<<"clear sky">>}]
    \cup [temp : {50, 120}, humidity : ApiHumidities, wind : {20, 90},
          clouds : {60}, visibility : {8000, 10000}, weather : {<<"clear sky">>}]
DashUtcHours == {0, 9}
DashInstants == {t \in Instants : t % HalfHour = 0}
DashSunEvents == [rise : {33}, length : {9, 76}]
\* main checks validate_coordinates before any service is constructed
DashCoordinates == {c \in {<<55, 37>>} : validate_coordinates(c[1], c[2])}
DashSolarWinds == [speed : {350, 700}, density : {3, 12}]
DashGeomagnetics == [kp_index : {-3, 0, 6, 9}]

DashForecasts ==
    IF UseMock THEN {MockForecast(h) : h \in DashUtcHours}
    ELSE {ApiForecast(r, h) : r \in DashApiResponses, h \in DashUtcHours}

DashIdle ==
    /\ pc = "start"
    /\ current_time = None
    /\ weather_analysis = None
    /\ golden_hour_info = None
    /\ is_golden_hour_today = None
    /\ aurora_result = None
    /\ result = None

\* generate_dashboard: the weather fetch fails, the error is returned
GenerateDashboardWeatherErr ==
    /\ pc = "start"
    /\ ~UseMock
    /\ \E now \in DashInstants : current_time' = now
    /\ result' = Err
    /\ pc' = "done"
    /\ UNCHANGED <<weather_analysis, golden_hour_info, is_golden_hour_today,
                   aurora_result>>

\* generate_dashboard up to the await of predict_aurora
GenerateDashboardWeatherOk ==
    /\ pc = "start"
    /\ \E now \in DashInstants, hourly \in DashForecasts :
          /\ current_time' = now
          /\ weather_analysis' = AnalyzeWeatherForPhotography(hourly)
          /\ golden_hour_info' = CalculateGoldenHours(now)
          /\ is_golden_hour_today' = IsGoldenHourToday(CalculateGoldenHours(now), now)
    /\ pc' = "await_aurora"
    /\ UNCHANGED <<aurora_result, result>>

\* generate_dashboard: predict_aurora fails, the error is returned
GenerateDashboardAuroraErr ==
    /\ pc = "await_aurora"
    /\ aurora_result' = Err
    /\ result' = Err
    /\ pc' = "done"
    /\ UNCHANGED <<current_time, weather_analysis, golden_hour_info,
                   is_golden_hour_today>>

\* generate_dashboard: predict_aurora succeeds, the summary is created
GenerateDashboardAuroraOk ==
    /\ pc = "await_aurora"
    /\ \E sw \in DashSolarWinds, geo \in DashGeomagnetics :
          LET f == AuroraForecastOf(sw, geo) IN
          /\ aurora_result' = Ok(f)
          /\ result' = Ok(CreateSummary(weather_analysis, golden_hour_info,
                              is_golden_hour_today, current_time,
                              f.visibility_probability))
    /\ pc' = "done"
    /\ UNCHANGED <<current_time, weather_analysis, golden_hour_info,
                   is_golden_hour_today>>

(***************************************************************************)
(* Display: compression of an hour list into intervals                     *)
(***************************************************************************)
\* format!("{:02}", hour): the two digits of an hour of day
FormatHour(hour) == <<hour \div 10, hour % 10>>

\* FormatInterval as a bug would have it: every run shows its first hour only
FormatIntervalStartOnly(start, end) == <<FormatHour(start)>>

\* "HH:00" for a run of one hour, "HH:00-HH:00" otherwise: the hour texts of
\* the string
FormatInterval(start, end) ==
    IF start = end THEN <<FormatHour(start)>>
    ELSE <<FormatHour(start), FormatHour(end)>>

\* CompressLoop as a bug would have it: a run is also continued from 23 to 0
RECURSIVE CompressLoopWrapping(_, _, _, _, _)
CompressLoopWrapping(list, i, start, end, acc) ==
    IF i > Len(list) THEN Append(acc, FormatInterval(start, end))
    ELSE IF list[i] = (end + 1) % 24
        THEN CompressLoopWrapping(list, i + 1, start, list[i], acc)
    ELSE CompressLoopWrapping(list, i + 1, list[i], list[i],
                              Append(acc, FormatInterval(start, end)))

\* CompressLoop as a bug would have it: a run is continued by any later hour
\* that is at most two hours on
RECURSIVE CompressLoopGap(_, _, _, _, _)
CompressLoopGap(list, i, start, end, acc) ==
    IF i > Len(list) THEN Append(acc, FormatInterval(start, end))
    ELSE IF list[i] = end + 1 \/ list[i] = end + 2
        THEN CompressLoopGap(list, i + 1, start, list[i], acc)
    ELSE CompressLoopGap(list, i + 1, list[i], list[i],
                         Append(acc, FormatInterval(start, end)))

\* the for loop over hours[1..] and the push of the last interval
RECURSIVE CompressLoop(_, _, _, _, _)
CompressLoop(list, i, start, end, acc) ==
    IF i > Len(list) THEN Append(acc, FormatInterval(start, end))
    ELSE IF list[i] = end + 1
        THEN CompressLoop(list, i + 1, start, list[i], acc)
    ELSE CompressLoop(list, i + 1, list[i], list[i],
                      Append(acc, FormatInterval(start, end)))

\* the local intervals of the four output functions
CompressHours(list) ==
    IF list = <<>> THEN <<>>
    ELSE CompressLoop(list, 2, list[1], list[1], <<>>)

\* .iter().take(n)
Take(q, n) == IF Len(q) <= n THEN q ELSE SubSeq(q, 1, n)

\* hour lists handed to the output functions: best_hours of an analysis is
\* ascending, best_viewing_hours is the night block that passes midnight
HourPool == {0, 1, 2, 5, 6, 7, 8, 18, 19, 20, 22, 23}
AscendingHourLists == {SortedSeq(S) : S \in SUBSET HourPool}
NightHourLists == {BestViewingHours, <<23, 0>>, <<22, 23, 0, 1>>, <<23, 0, 2>>}
HourLists == AscendingHourLists \cup NightHourLists

DisplayIdle ==
    /\ cpc = "idle"
    /\ intervals = <<>>
    /\ shown = None

\* print_dashboard: the best hours line, joined with ", "
PrintDashboardBestHours ==
    /\ cpc = "idle"
    /\ cpc' = "print_dashboard"
    /\ intervals' = CompressHours(hours)
    /\ shown' = IF hours = <<>> THEN None
                ELSE [separator |-> ", ", items |-> CompressHours(hours)]
    /\ UNCHANGED hours

\* generate_weather_output: the first three intervals, joined with " "
GenerateWeatherOutputBestHours ==
    /\ cpc = "idle"
    /\ cpc' = "generate_weather_output"
    /\ intervals' = CompressHours(hours)
    /\ shown' = IF hours = <<>> THEN [no_suitable_hours |-> TRUE]
                ELSE [separator |-> " ", items |-> Take(CompressHours(hours), 3)]
    /\ UNCHANGED hours

\* print_solar_data: the best viewing hours line, joined with ", "
PrintSolarDataBestHours ==
    /\ cpc = "idle"
    /\ cpc' = "print_solar_data"
    /\ intervals' = CompressHours(hours)
    /\ shown' = IF hours = <<>> THEN None
                ELSE [separator |-> ", ", items |-> CompressHours(hours)]
    /\ UNCHANGED hours

\* generate_solar_output: hours_str, joined with ", "
GenerateSolarOutputBestHours ==
    /\ cpc = "idle"
    /\ cpc' = "generate_solar_output"
    /\ intervals' = CompressHours(hours)
    /\ shown' = [separator |-> ", ", items |-> CompressHours(hours)]
    /\ UNCHANGED hours

(***************************************************************************)
(* A run: main of the binary and generate_dashboard_output of the library  *)
(*                                                                         *)
(* The probability handed to the tips is kept in 300ths (0.5 = 150): the   *)
(* binary hands over the f64 of the forecast (30ths), the library the      *)
(* whole percent it reads back from the forecast line (100ths).            *)
(* The sun events of a run are those of a day with a sunrise and a sunset. *)
(***************************************************************************)
\* <<latitude, longitude>> load_environment_variables may answer
RunCoordinates == {<<55, 37>>, <<91, 37>>, <<55, 181>>}
RunSunEvents == [rise : {33}, length : {76}]
\* readings of Local::now(): inside the morning golden hour and after it
RunInstants == {TicksPerDay + 36, TicksPerDay + 42}
\* answers of the weather API whose forecasts score below 5, 7 and above 8
RunApiResponses ==
    {r \in DashApiResponses :
        \/ (r.temp = 200 /\ r.wind = 100 /\ r.clouds = 75)
        \/ (r.temp \in {50, 120} /\ r.wind = 20 /\ r.visibility = 10000)}
RunForecasts ==
    IF UseMock THEN {MockForecast(0)}
    ELSE {ApiForecast(r, 0) : r \in RunApiResponses}
RunSolarWinds == {[speed |-> 350, density |-> 3]}
RunGeomagnetics == [kp_index : {1, 8}]

\* `x as i32` of a quotient: truncation towards zero
TruncDiv(a, b) == IF a >= 0 THEN a \div b ELSE -((-a) \div b)

\* the tokens ending in '%' of the aurora_forecast line of generate_solar_output:
\* (visibility_probability * 100.0) as i32 on success, none in the error line
AuroraForecastPercents(predicted) ==
    IF predicted.ok
       THEN <<TruncDiv(100 * predicted.value.visibility_probability, 30)>>
       ELSE <<>>

\* process_solar_data of the library: the first token ending in '%', parsed
\* and divided by 100, or 0.0; in 300ths
ParseAuroraProbability(percents) ==
    IF percents = <<>> THEN 0 ELSE 3 * percents[1]

\* the f64 visibility_probability of a forecast, in 300ths
ProbabilityOfForecast(f) == 10 * f.visibility_probability

\* GoldenHourService::is_golden_hour at the instant the clock shows
IsGoldenHour(now) ==
    LET golden_hours_now == CalculateGoldenHours(now)
    IN \/ (now >= golden_hours_now.golden_hour_morning_start
              /\ now <= golden_hours_now.golden_hour_morning_end)
       \/ (now >= golden_hours_now.golden_hour_evening_start
              /\ now <= golden_hours_now.golden_hour_evening_end)

\* what generate_dashboard answers once both of its fetches succeeded
GenerateDashboard(now, hourly, sw, geo) ==
    LET info == CalculateGoldenHours(now)
    IN CreateSummary(AnalyzeWeatherForPhotography(hourly), info,
                     IsGoldenHourToday(info, now), now,
                     AuroraForecastOf(sw, geo).visibility_probability)

\* the arguments of get_tips_for_weather
TipsArguments(l) ==
    [weather_score |-> l.weather_score,
     is_golden_hour |-> l.is_golden_hour,
     aurora_probability |-> l.aurora_probability]

\* the locals of a run before they are bound: no Result yet, the numbers shown
\* as 0.0 and the flag as false
NoLocals ==
    [weather |-> None, solar |-> None, weather_score |-> 0,
     aurora_probability |-> 0, is_golden_hour |-> FALSE]

RunIdle ==
    /\ rpc = "idle"
    /\ clock = TicksPerDay
    /\ services = {}
    /\ requests = 0
    /\ output = <<>>
    /\ run_summary = None
    /\ locals = NoLocals
    /\ tips = None
    /\ exit = "running"

RunStart(entry) ==
    /\ rpc = entry
    /\ clock \in RunInstants
    /\ services = {}
    /\ requests = 0
    /\ output = <<>>
    /\ run_summary = None
    /\ locals = NoLocals
    /\ tips = None
    /\ exit = "running"

\* main: validate_coordinates fails, the run returns Err at once
MainInvalidCoordinates ==
    /\ rpc = "main"
    /\ ~validate_coordinates(latitude, longitude)
    /\ exit' = "Err"
    /\ rpc' = "returned"
    /\ UNCHANGED <<clock, services, requests, output, run_summary, locals, tips>>

\* main: the coordinates are valid, PhotographyDashboard::new builds the
\* weather service and the golden hour service
MainNewDashboard ==
    /\ rpc = "main"
    /\ validate_coordinates(latitude, longitude)
    /\ services' = {"WeatherService", "GoldenHourService"}
    /\ rpc' = "generate_dashboard"
    /\ UNCHANGED <<clock, requests, output, run_summary, locals, tips, exit>>

\* main: generate_dashboard fails in its weather fetch (first request) or in
\* predict_aurora (second request); the error is returned
MainGenerateDashboardErr ==
    /\ rpc = "generate_dashboard"
    /\ \E now \in RunInstants, failed \in {1, 2} :
          /\ failed = 1 => ~UseMock
          /\ now >= clock
          /\ clock' = now
          /\ requests' = requests + failed
    /\ run_summary' = Err
    /\ exit' = "Err"
    /\ rpc' = "returned"
    /\ UNCHANGED <<services, output, locals, tips>>

\* main: generate_dashboard succeeds; print_dashboard, then the heading of
\* the details and the defaults of weather_score and aurora_probability
MainGenerateDashboardOk ==
    /\ rpc = "generate_dashboard"
    /\ \E now \in RunInstants, hourly \in RunForecasts,
          sw \in RunSolarWinds, geo \in RunGeomagnetics :
          /\ now >= clock
          /\ clock' = now
          /\ run_summary' = Ok(GenerateDashboard(now, hourly, sw, geo))
    /\ requests' = requests + 2
    /\ output' = <<"print_dashboard", "details">>
    /\ locals' = [locals EXCEPT !.weather_score = 0, !.aurora_probability = 0]
    /\ rpc' = "process_weather_data"
    /\ UNCHANGED <<services, tips, exit>>

\* main: process_weather_data fails, the error is shown, the score stays 0.0
MainProcessWeatherDataErr ==
    /\ rpc = "process_weather_data"
    /\ ~UseMock
    /\ services' = services \cup {"WeatherService"}
    /\ requests' = requests + 1
    /\ locals' = [locals EXCEPT !.weather = Err]
    /\ output' = Append(output, "weather error")
    /\ rpc' = "process_solar_data"
    /\ UNCHANGED <<clock, run_summary, tips, exit>>

\* main: process_weather_data succeeds with the score of a fresh forecast
MainProcessWeatherDataOk ==
    /\ rpc = "process_weather_data"
    /\ \E hourly \in RunForecasts :
          LET score == AnalyzeWeatherForPhotography(hourly).overall_score
          IN locals' = [locals EXCEPT !.weather = Ok(score),
                                      !.weather_score = score]
    /\ services' = services \cup {"WeatherService"}
    /\ requests' = requests + 1
    /\ output' = Append(output, "weather")
    /\ rpc' = "process_solar_data"
    /\ UNCHANGED <<clock, run_summary, tips, exit>>

\* main: process_solar_data fails in predict_aurora after print_solar_data
\* has written its lines; the probability stays 0.0
MainProcessSolarDataErr ==
    /\ rpc = "process_solar_data"
    /\ requests' = requests + 1
    /\ locals' = [locals EXCEPT !.solar = Err]
    /\ output' = Append(output, "solar")
    /\ rpc' = "process_golden_hour"
    /\ UNCHANGED <<clock, services, run_summary, tips, exit>>

\* main: process_solar_data succeeds with the probability of a fresh forecast
MainProcessSolarDataOk ==
    /\ rpc = "process_solar_data"
    /\ \E sw \in RunSolarWinds, geo \in RunGeomagnetics :
          LET probability == ProbabilityOfForecast(AuroraForecastOf(sw, geo))
          IN locals' = [locals EXCEPT !.solar = Ok(probability),
                                      !.aurora_probability = probability]
    /\ requests' = requests + 1
    /\ output' = Append(output, "solar")
    /\ rpc' = "process_golden_hour"
    /\ UNCHANGED <<clock, services, run_summary, tips, exit>>

\* main: process_golden_hour reads the clock again
MainProcessGoldenHour ==
    /\ rpc = "process_golden_hour"
    /\ \E now \in RunInstants :
          /\ now >= clock
          /\ clock' = now
          /\ locals' = [locals EXCEPT !.is_golden_hour = IsGoldenHour(now)]
    /\ services' = services \cup {"GoldenHourService"}
    /\ output' = Append(output, "golden hour")
    /\ rpc' = "print_personalized_tips"
    /\ UNCHANGED <<requests, run_summary, tips, exit>>

\* main: print_personalized_tips, then Ok(())
MainPrintPersonalizedTips ==
    /\ rpc = "print_personalized_tips"
    /\ services' = services \cup {"PhotographyTipsService"}
    /\ tips' = TipsArguments(locals)
    /\ output' = Append(output, "tips")
    /\ exit' = "Ok"
    /\ rpc' = "returned"
    /\ UNCHANGED <<clock, requests, run_summary, locals>>

\* generate_dashboard_output: generate_dashboard fails, `?` returns the error
OutputGenerateDashboardErr ==
    /\ rpc = "generate_dashboard_output"
    /\ \E now \in RunInstants, failed \in {1, 2} :
          /\ failed = 1 => ~UseMock
          /\ now >= clock
          /\ clock' = now
          /\ requests' = requests + failed
    /\ services' = {"WeatherService", "GoldenHourService"}
    /\ run_summary' = Err
    /\ exit' = "Err"
    /\ rpc' = "returned"
    /\ UNCHANGED <<output, locals, tips>>

\* generate_dashboard_output: the summary is generated
OutputGenerateDashboardOk ==
    /\ rpc = "generate_dashboard_output"
    /\ \E now \in RunInstants, hourly \in RunForecasts,
          sw \in RunSolarWinds, geo \in RunGeomagnetics :
          /\ now >= clock
          /\ clock' = now
          /\ run_summary' = Ok(GenerateDashboard(now, hourly, sw, geo))
    /\ services' = {"WeatherService", "GoldenHourService"}
    /\ requests' = requests + 2
    /\ rpc' = "process_weather_data"
    /\ UNCHANGED <<output, locals, tips, exit>>

\* generate_dashboard_output: process_weather_data fails, `?` returns the error
OutputProcessWeatherDataErr ==
    /\ rpc = "process_weather_data"
    /\ ~UseMock
    /\ requests' = requests + 1
    /\ locals' = [locals EXCEPT !.weather = Err]
    /\ exit' = "Err"
    /\ rpc' = "returned"
    /\ UNCHANGED <<clock, services, output, run_summary, tips>>

\* generate_dashboard_output: process_weather_data fetches a forecast of its
\* own and answers its score
OutputProcessWeatherDataOk ==
    /\ rpc = "process_weather_data"
    /\ \E hourly \in RunForecasts :
          LET score == AnalyzeWeatherForPhotography(hourly).overall_score
          IN locals' = [locals EXCEPT !.weather = Ok(score),
                                      !.weather_score = score]
    /\ requests' = requests + 1
    /\ output' = Append(output, "weather_output")
    /\ rpc' = "process_solar_data"
    /\ UNCHANGED <<clock, services, run_summary, tips, exit>>

\* generate_dashboard_output: process_solar_data; generate_solar_output never
\* fails, a failed prediction becomes an error line without a percentage
OutputProcessSolarData ==
    /\ rpc = "process_solar_data"
    /\ \E predicted \in {Err} \cup {Ok(AuroraForecastOf(sw, geo)) :
                                       sw \in RunSolarWinds,
                                       geo \in RunGeomagnetics} :
          LET probability ==
                  ParseAuroraProbability(AuroraForecastPercents(predicted))
          IN locals' = [locals EXCEPT !.solar = Ok(probability),
                                      !.aurora_probability = probability]
    /\ requests' = requests + 1
    /\ output' = Append(output, "solar_output")
    /\ rpc' = "process_golden_hour"
    /\ UNCHANGED <<clock, services, run_summary, tips, exit>>

\* generate_dashboard_output: process_golden_hour reads the clock again
OutputProcessGoldenHour ==
    /\ rpc = "process_golden_hour"
    /\ \E now \in RunInstants :
          /\ now >= clock
          /\ clock' = now
          /\ locals' = [locals EXCEPT !.is_golden_hour = IsGoldenHour(now)]
    /\ services' = services \cup {"GoldenHourService"}
    /\ output' = Append(output, "golden_hour_output")
    /\ rpc' = "process_photography_tips"
    /\ UNCHANGED <<requests, run_summary, tips, exit>>

\* generate_dashboard_output: process_photography_tips, then Ok(DashboardOutput)
OutputProcessPhotographyTips ==
    /\ rpc = "process_photography_tips"
    /\ services' = services \cup {"PhotographyTipsService"}
    /\ tips' = TipsArguments(locals)
    /\ output' = Append(output, "tips_output")
    /\ exit' = "Ok"
    /\ rpc' = "returned"
    /\ UNCHANGED <<clock, requests, run_summary, locals>>

(***************************************************************************)
(* Specifications                                                          *)
(***************************************************************************)
EnvInit ==
    /\ demo_mode \in BOOLEAN
    /\ api_key \in {"demo_key", "real_key"}

\* the dashboard run
Init ==
    /\ EnvInit
    /\ \E c \in DashCoordinates : latitude = c[1] /\ longitude = c[2]
    /\ sun \in DashSunEvents
    /\ WeatherIdle /\ GoldenIdle /\ AuroraIdle /\ DashIdle /\ DisplayIdle
    /\ RunIdle
    /\ swepam = <<>>
    /\ hours = <<>>

Next ==
    \/ (GenerateDashboardWeatherErr
            /\ UNCHANGED <<envVars, weatherVars, goldenVars, auroraVars,
                           displayVars,
                           runVars>>)
    \/ (GenerateDashboardWeatherOk
            /\ UNCHANGED <<envVars, weatherVars, goldenVars, auroraVars,
                           displayVars,
                           runVars>>)
    \/ (GenerateDashboardAuroraErr
            /\ UNCHANGED <<envVars, weatherVars, goldenVars, auroraVars,
                           displayVars,
                           runVars>>)
    \/ (GenerateDashboardAuroraOk
            /\ UNCHANGED <<envVars, weatherVars, goldenVars, auroraVars,
                           displayVars,
                           runVars>>)

Spec == Init /\ [][Next]_vars

\* the weather service and its analysis
InitWeather ==
    /\ EnvInit
    /\ \E c \in DashCoordinates : latitude = c[1] /\ longitude = c[2]
    /\ sun \in DashSunEvents
    /\ WeatherIdle /\ GoldenIdle /\ AuroraIdle /\ DashIdle /\ DisplayIdle
    /\ RunIdle
    /\ swepam = <<>>
    /\ hours = <<>>

NextWeather ==
    \/ (GetWeatherForecastMock
            /\ UNCHANGED <<envVars, goldenVars, auroraVars, dashVars,
                           displayVars,
                           runVars>>)
    \/ (GetWeatherForecastApi
            /\ UNCHANGED <<envVars, goldenVars, auroraVars, dashVars,
                           displayVars,
                           runVars>>)
    \/ (GetWeatherForecastErr
            /\ UNCHANGED <<envVars, goldenVars, auroraVars, dashVars,
                           displayVars,
                           runVars>>)
    \/ (AnalyzeForecast
            /\ UNCHANGED <<envVars, goldenVars, auroraVars, dashVars,
                           displayVars,
                           runVars>>)

SpecWeather == InitWeather /\ [][NextWeather]_vars

\* the golden hour service
InitGolden ==
    /\ EnvInit
    /\ \E c \in Coordinates : latitude = c[1] /\ longitude = c[2]
    /\ sun \in SunEvents \cup PolarSunEvents
    /\ WeatherIdle /\ GoldenIdle /\ AuroraIdle /\ DashIdle /\ DisplayIdle
    /\ RunIdle
    /\ swepam = <<>>
    /\ hours = <<>>

NextGolden ==
    \/ (CallCalculateGoldenHours
            /\ UNCHANGED <<envVars, weatherVars, auroraVars, dashVars,
                           displayVars,
                           runVars>>)
    \/ (CallGetCurrentLightingCondition
            /\ UNCHANGED <<envVars, weatherVars, auroraVars, dashVars,
                           displayVars,
                           runVars>>)

SpecGolden == InitGolden /\ [][NextGolden]_vars

\* the aurora prediction
InitAurora ==
    /\ EnvInit
    /\ \E c \in DashCoordinates : latitude = c[1] /\ longitude = c[2]
    /\ sun \in DashSunEvents
    /\ WeatherIdle /\ GoldenIdle /\ AuroraIdle /\ DashIdle /\ DisplayIdle
    /\ RunIdle
    /\ swepam = <<>>
    /\ hours = <<>>

NextAurora ==
    \/ (FetchSolarWindOk
            /\ UNCHANGED <<envVars, weatherVars, goldenVars, dashVars,
                           displayVars,
                           runVars>>)
    \/ (FetchSolarWindErr
            /\ UNCHANGED <<envVars, weatherVars, goldenVars, dashVars,
                           displayVars,
                           runVars>>)
    \/ (FetchGeomagneticOk
            /\ UNCHANGED <<envVars, weatherVars, goldenVars, dashVars,
                           displayVars,
                           runVars>>)
    \/ (FetchGeomagneticErr
            /\ UNCHANGED <<envVars, weatherVars, goldenVars, dashVars,
                           displayVars,
                           runVars>>)

SpecAurora == InitAurora /\ [][NextAurora]_vars

\* the output functions on an hour list
InitCompress ==
    /\ EnvInit
    /\ \E c \in DashCoordinates : latitude = c[1] /\ longitude = c[2]
    /\ sun \in DashSunEvents
    /\ WeatherIdle /\ GoldenIdle /\ AuroraIdle /\ DashIdle /\ DisplayIdle
    /\ RunIdle
    /\ swepam = <<>>
    /\ hours \in HourLists

NextCompress ==
    \/ (PrintDashboardBestHours
            /\ UNCHANGED <<envVars, weatherVars, goldenVars, auroraVars, dashVars,
                           runVars>>)
    \/ (GenerateWeatherOutputBestHours
            /\ UNCHANGED <<envVars, weatherVars, goldenVars, auroraVars, dashVars,
                           runVars>>)
    \/ (PrintSolarDataBestHours
            /\ UNCHANGED <<envVars, weatherVars, goldenVars, auroraVars, dashVars,
                           runVars>>)
    \/ (GenerateSolarOutputBestHours
            /\ UNCHANGED <<envVars, weatherVars, goldenVars, auroraVars, dashVars,
                           runVars>>)

SpecCompress == InitCompress /\ [][NextCompress]_vars

\* fetch_solar_wind_data on a feed
InitSolarWind ==
    /\ EnvInit
    /\ \E c \in DashCoordinates : latitude = c[1] /\ longitude = c[2]
    /\ sun \in DashSunEvents
    /\ WeatherIdle /\ GoldenIdle /\ AuroraIdle /\ DashIdle /\ DisplayIdle
    /\ RunIdle
    /\ hours = <<>>
    /\ swepam \in SwepamFeeds

NextSolarWind ==
    \/ (FetchSolarWindDataRequestErr
            /\ UNCHANGED <<envVars, weatherVars, goldenVars, dashVars, displayVars,
                           runVars>>)
    \/ (FetchSolarWindDataParsed
            /\ UNCHANGED <<envVars, weatherVars, goldenVars, dashVars, displayVars,
                           runVars>>)

SpecSolarWind == InitSolarWind /\ [][NextSolarWind]_vars

\* analyze_weather_for_photography on a forecast of any length
InitAnalyze ==
    /\ EnvInit
    /\ \E c \in DashCoordinates : latitude = c[1] /\ longitude = c[2]
    /\ sun \in DashSunEvents
    /\ WeatherIdle /\ GoldenIdle /\ AuroraIdle /\ DashIdle /\ DisplayIdle
    /\ RunIdle
    /\ swepam = <<>>
    /\ hours = <<>>

NextAnalyze ==
    \/ (BuildForecast
            /\ UNCHANGED <<envVars, goldenVars, auroraVars, dashVars,
                           displayVars, runVars>>)
    \/ (AnalyzeForecast
            /\ UNCHANGED <<envVars, goldenVars, auroraVars, dashVars,
                           displayVars, runVars>>)

SpecAnalyze == InitAnalyze /\ [][NextAnalyze]_vars

\* analyze_astrophotography_conditions on a forecast of any length
InitAstrophotography ==
    /\ EnvInit
    /\ \E c \in DashCoordinates : latitude = c[1] /\ longitude = c[2]
    /\ sun \in DashSunEvents
    /\ WeatherIdle /\ GoldenIdle /\ AuroraIdle /\ DashIdle /\ DisplayIdle
    /\ RunIdle
    /\ swepam = <<>>
    /\ hours = <<>>

NextAstrophotography ==
    \/ (BuildNightForecast
            /\ UNCHANGED <<envVars, goldenVars, auroraVars, dashVars,
                           displayVars, runVars>>)
    \/ (AnalyzeAstrophotography
            /\ UNCHANGED <<envVars, goldenVars, auroraVars, dashVars,
                           displayVars, runVars>>)

SpecAstrophotography == InitAstrophotography /\ [][NextAstrophotography]_vars

\* main of the binary
InitMain ==
    /\ EnvInit
    /\ \E c \in RunCoordinates : latitude = c[1] /\ longitude = c[2]
    /\ sun \in RunSunEvents
    /\ WeatherIdle /\ GoldenIdle /\ AuroraIdle /\ DashIdle /\ DisplayIdle
    /\ swepam = <<>>
    /\ hours = <<>>
    /\ RunStart("main")

NextMain ==
    \/ (MainInvalidCoordinates
            /\ UNCHANGED <<envVars, weatherVars, goldenVars, auroraVars, dashVars,
                           displayVars>>)
    \/ (MainNewDashboard
            /\ UNCHANGED <<envVars, weatherVars, goldenVars, auroraVars, dashVars,
                           displayVars>>)
    \/ (MainGenerateDashboardErr
            /\ UNCHANGED <<envVars, weatherVars, goldenVars, auroraVars, dashVars,
                           displayVars>>)
    \/ (MainGenerateDashboardOk
            /\ UNCHANGED <<envVars, weatherVars, goldenVars, auroraVars, dashVars,
                           displayVars>>)
    \/ (MainProcessWeatherDataErr
            /\ UNCHANGED <<envVars, weatherVars, goldenVars, auroraVars, dashVars,
                           displayVars>>)
    \/ (MainProcessWeatherDataOk
            /\ UNCHANGED <<envVars, weatherVars, goldenVars, auroraVars, dashVars,
                           displayVars>>)
    \/ (MainProcessSolarDataErr
            /\ UNCHANGED <<envVars, weatherVars, goldenVars, auroraVars, dashVars,
                           displayVars>>)
    \/ (MainProcessSolarDataOk
            /\ UNCHANGED <<envVars, weatherVars, goldenVars, auroraVars, dashVars,
                           displayVars>>)
    \/ (MainProcessGoldenHour
            /\ UNCHANGED <<envVars, weatherVars, goldenVars, auroraVars, dashVars,
                           displayVars>>)
    \/ (MainPrintPersonalizedTips
            /\ UNCHANGED <<envVars, weatherVars, goldenVars, auroraVars, dashVars,
                           displayVars>>)

SpecMain == InitMain /\ [][NextMain]_vars

\* main of the binary when every await resolves: each step that can be taken
\* is taken
FairSpecMain == SpecMain /\ WF_vars(NextMain)

\* generate_dashboard_output of the library, on valid coordinates
InitOutput ==
    /\ EnvInit
    /\ \E c \in DashCoordinates : latitude = c[1] /\ longitude = c[2]
    /\ sun \in RunSunEvents
    /\ WeatherIdle /\ GoldenIdle /\ AuroraIdle /\ DashIdle /\ DisplayIdle
    /\ swepam = <<>>
    /\ hours = <<>>
    /\ RunStart("generate_dashboard_output")

NextOutput ==
    \/ (OutputGenerateDashboardErr
            /\ UNCHANGED <<envVars, weatherVars, goldenVars, auroraVars, dashVars,
                           displayVars>>)
    \/ (OutputGenerateDashboardOk
            /\ UNCHANGED <<envVars, weatherVars, goldenVars, auroraVars, dashVars,
                           displayVars>>)
    \/ (OutputProcessWeatherDataErr
            /\ UNCHANGED <<envVars, weatherVars, goldenVars, auroraVars, dashVars,
                           displayVars>>)
    \/ (OutputProcessWeatherDataOk
            /\ UNCHANGED <<envVars, weatherVars, goldenVars, auroraVars, dashVars,
                           displayVars>>)
    \/ (OutputProcessSolarData
            /\ UNCHANGED <<envVars, weatherVars, goldenVars, auroraVars, dashVars,
                           displayVars>>)
    \/ (OutputProcessGoldenHour
            /\ UNCHANGED <<envVars, weatherVars, goldenVars, auroraVars, dashVars,
                           displayVars>>)
    \/ (OutputProcessPhotographyTips
            /\ UNCHANGED <<envVars, weatherVars, goldenVars, auroraVars, dashVars,
                           displayVars>>)

SpecOutput == InitOutput /\ [][NextOutput]_vars

(***************************************************************************)
(* Claims                                                                  *)
(***************************************************************************)
RECURSIVE SumOver(_, _)
SumOver(f, S) ==
    IF S = {} THEN 0
    ELSE LET x == CHOOSE y \in S : TRUE IN f[x] + SumOver(f, S \ {x})

\* the weighted composite of the specification, times 120:
\* weather_score * 0.4 + aurora_probability * 10 * 0.3 + (3 if golden hour)
CompositeTier(weather_score, aurora_probability, golden) ==
    LET composite == weather_score + 12 * aurora_probability
                     + (IF golden THEN 360 ELSE 0)
    IN IF composite >= 960 THEN "excellent"
       ELSE IF composite >= 720 THEN "good"
       ELSE IF composite >= 480 THEN "moderate"
       ELSE "difficult"

\* C1: for a weather score in [0,10] and an aurora probability in [0,1] the
\* recommendation of the summary is the tier of the weighted composite
\* (>= 8 excellent, >= 6 good, >= 4 moderate, else not recommended).
C1_CompositeTierSelected ==
    (pc = "done" /\ result.ok
        /\ result.value.weather_score \in 0..480
        /\ result.value.aurora_probability \in 0..30)
    => result.value.overall_recommendation =
           CompositeTier(result.value.weather_score,
                         result.value.aurora_probability,
                         result.value.is_golden_hour_today)

\* C2: best_shooting_hours is the ascending, duplicate-free union of the weather
\* best_hours and the aurora best_viewing_hours.
C2_BestHoursAreSortedUnion ==
    (pc = "done" /\ result.ok)
    => result.value.best_shooting_hours =
           SortedSeq(Range(weather_analysis.best_hours)
                     \cup Range(aurora_result.value.best_viewing_hours))

\* C3: when the weather fetch succeeded and the aurora fetch failed, the run
\* still ends in a summary, computed with aurora_probability = 0.0.
C3_AuroraFailureStillYieldsSummary ==
    (pc = "done" /\ weather_analysis # None /\ aurora_result = Err)
    => (result.ok /\ result.value.aurora_probability = 0)

\* C4: the overall_score of the analysis of a 24-sample forecast lies in [0, 10].
C4_OverallScoreWithinTen ==
    (wpc = "analyzed" /\ Len(forecast.value) = 24)
    => (analysis.overall_score >= 0 /\ analysis.overall_score <= 480)

\* the cloud points of the specification's table: 30..70 inclusive earns 1.5
C5_CloudBand(cloud_cover) ==
    IF cloud_cover < 30 THEN 6 ELSE IF cloud_cover <= 70 THEN 3 ELSE 0

\* C5: cloud cover from 30% up to and including 70% earns 1.5 points and no
\* cloud concern; only cloud cover above 70% earns 0 and appends a cloud
\* concern.  Stated on the analysis: its score is the sum of the hourly scores
\* with that cloud band, and its cloud concerns are those of the hours above 70%.
C5_CloudBandInclusiveSeventy ==
    wpc = "analyzed"
    => LET hourly == forecast.value
           claimed == [i \in 1..Len(hourly) |->
                          HourScore(hourly[i], i - 1)
                          - CloudPoints(hourly[i].cloud_cover)
                          + C5_CloudBand(hourly[i].cloud_cover)]
       IN /\ analysis.overall_score = SumOver(claimed, 1..Len(hourly))
          /\ Cardinality({k \in 1..Len(analysis.concerns) :
                             analysis.concerns[k][1] = "cloud"})
             = Cardinality({i \in 1..Len(hourly) : hourly[i].cloud_cover > 70})

C7_BlueHourHalfOpen ==
    gpc = "get_current_lighting_condition"
    => /\ calculation_time = golden_hours.sunrise => lighting = "GoldenHourMorning"
       /\ calculation_time = golden_hours.sunset => lighting = "GoldenHourEvening"
       /\ lighting = "BlueHourMorning"
            <=> (calculation_time >= golden_hours.blue_hour_morning_start
                 /\ calculation_time < golden_hours.sunrise)

\* C8: every forecast has exactly 24 samples and the sample at index i was
\* generated for hour of day i.
C8_IndexIsHourOfDay ==
    (forecast # None /\ forecast.ok)
    => /\ Len(forecast.value) = 24
       /\ \A i \in 1..Len(forecast.value) : generated_for[i] = i - 1

\* C9: the predicted visibility_probability lies in [0, 1] for every input.
C9_ProbabilityWithinUnit ==
    (apc = "done" /\ aurora.ok)
    => (aurora.value.visibility_probability >= 0
        /\ aurora.value.visibility_probability <= 30)

GoldenHourHighlights ==
    {"golden hour today", "golden hour now, morning", "golden hour now, evening"}

\* C10: key_highlights holds a golden-hour highlight if and only if the
\* is_golden_hour flag given to the summary step is true.
C10_GoldenHighlightIffFlag ==
    (pc = "done" /\ result.ok)
    => ((Range(result.value.key_highlights) \cap GoldenHourHighlights # {})
        <=> result.value.is_golden_hour_today)

\* the typed failure values the specification names for the lighting windows
InvalidCoordinate == [ok |-> FALSE, error |-> "InvalidCoordinate"]
PolarDayOrNightFailure == [ok |-> FALSE, error |-> "PolarDayOrNight"]

\* C11: a latitude outside [-90, 90] or a longitude outside [-180, 180] ends
\* the lighting-window calculation in the typed InvalidCoordinate failure,
\* never in a crash; the limits -90, 90, -180 and 180 themselves are accepted.
C11_InvalidCoordinateIsTypedFailure ==
    gpc # "idle"
    => /\ (latitude < -90 \/ latitude > 90 \/ longitude < -180 \/ longitude > 180)
            => (gpc # "panicked" /\ golden_hours = InvalidCoordinate)
       /\ (latitude \in {-90, 90} /\ longitude \in {-180, 180})
            => golden_hours # InvalidCoordinate

\* C12: on a day on which the sun does not rise or does not set, the
\* lighting-window calculation for valid coordinates ends in the typed
\* PolarDayOrNight failure and never in a crash.
C12_PolarDayIsTypedFailure ==
    (gpc # "idle" /\ PolarDayOrNight /\ validate_coordinates(latitude, longitude))
    => (gpc # "panicked" /\ golden_hours = PolarDayOrNightFailure)

\* the hourly score as C13 states it, in half points; cloud is the cloud-cover
\* term, which C13 leaves to the band table
C13_HourlyScore(weather, hour, cloud) ==
    (IF 100 <= weather.temperature /\ weather.temperature <= 250 THEN 4 ELSE 0)
    + (IF weather.wind_speed < 100 THEN 4 ELSE 0)
    + cloud
    + (IF weather.visibility > 8000 THEN 4 ELSE 0)
    + (IF weather.precipitation_probability < 20 THEN 2 ELSE 0)
    + (IF hour \in {6, 7, 8, 18, 19, 20} THEN 4 ELSE 0)

\* the band points C13 allows for a cloud cover: 3 below 30%, 1.5 from 30% up
\* to 70%, 0 above 70%; which of 1.5 and 0 is earned at exactly 70% is the
\* subject of C5 and left open here
C13_CloudBandPoints(cloud_cover) ==
    IF cloud_cover < 30 THEN {6}
    ELSE IF cloud_cover < 70 THEN {3}
    ELSE IF cloud_cover = 70 THEN {3, 0}
    ELSE {0}

\* C13: the hourly score is the sum of the temperature, wind, cloud band,
\* visibility, precipitation and bonus-hour points; it never exceeds 12,
\* reaches 12 only in the hours 6,7,8,18,19,20 and never exceeds 10 elsewhere.
C13_HourlyScoreIsSumOfCriteria ==
    wpc = "analyzed"
    => \A i \in 1..Len(hour_scores) :
          /\ \E cloud \in C13_CloudBandPoints(forecast.value[i].cloud_cover) :
                hour_scores[i] = C13_HourlyScore(forecast.value[i], i - 1, cloud)
          /\ hour_scores[i] <= 24
          /\ hour_scores[i] = 24 => (i - 1) \in {6, 7, 8, 18, 19, 20}
          /\ (i - 1) \notin {6, 7, 8, 18, 19, 20} => hour_scores[i] <= 20

\* a forecast has been analyzed in which a bonus hour scores 12, another hour
\* scores 10 and some hour fails every criterion
C13_FullAndEmptyHoursScored ==
    /\ wpc = "analyzed"
    /\ hour_scores[7] = 24
    /\ \E i \in 1..Len(hour_scores) :
          (i - 1) \notin {6, 7, 8, 18, 19, 20} /\ hour_scores[i] = 20
    /\ \E i \in 1..Len(hour_scores) : hour_scores[i] < 10

\* C14: best_hours holds exactly the hour indices whose own hourly score is
\* at least 7 (7 itself included), each once, in strictly ascending order.
C14_BestHoursAreHoursScoringSeven ==
    wpc = "analyzed"
    => /\ Range(analysis.best_hours)
            = {i - 1 : i \in {j \in 1..Len(hour_scores) : hour_scores[j] >= 14}}
       /\ \A k \in 1..(Len(analysis.best_hours) - 1) :
            analysis.best_hours[k] < analysis.best_hours[k + 1]

\* a forecast has been analyzed in which one hour scores exactly 7 and is a
\* best hour, and another scores 6.5 and is not
C14_HourScoringExactlySeven ==
    /\ wpc = "analyzed"
    /\ \E i \in 1..Len(hour_scores) :
          hour_scores[i] = 14 /\ (i - 1) \in Range(analysis.best_hours)
    /\ \E i \in 1..Len(hour_scores) :
          hour_scores[i] = 13 /\ (i - 1) \notin Range(analysis.best_hours)

\* the criteria hour i of the analyzed forecast fails, as C15 counts them; the
\* cloud-cover criterion is failed when the hour earned no cloud points
C15_FailedCriteria(i) ==
    LET weather == forecast.value[i]
    IN (IF 100 <= weather.temperature /\ weather.temperature <= 250
           THEN {} ELSE {"temperature"})
       \cup (IF weather.wind_speed < 100 THEN {} ELSE {"wind"})
       \cup (IF hour_scores[i] = C13_HourlyScore(weather, i - 1, 0)
           THEN {"cloud"} ELSE {})
       \cup (IF weather.visibility > 8000 THEN {} ELSE {"visibility"})
       \cup (IF weather.precipitation_probability < 20 THEN {} ELSE {"precipitation"})

\* the number of concerns of the hours before hour i
C15_ConcernsBefore(i) ==
    SumOver([j \in 1..Len(hour_scores) |-> Cardinality(C15_FailedCriteria(j))],
            1..(i - 1))

\* C15: concerns holds one entry for each failed criterion of each hour, in
\* hour order and never deduplicated: its length is the total number of failed
\* criteria, and it is empty iff every hour passes all five criteria.
C15_ConcernsOnePerFailedCriterion ==
    wpc = "analyzed"
    => LET n == Len(hour_scores)
       IN /\ Len(analysis.concerns) = C15_ConcernsBefore(n + 1)
          /\ \A i \in 1..n :
                {analysis.concerns[k][1] :
                    k \in (C15_ConcernsBefore(i) + 1)..C15_ConcernsBefore(i + 1)}
                = C15_FailedCriteria(i)
          /\ (analysis.concerns = <<>>
                <=> \A i \in 1..n : C15_FailedCriteria(i) = {})

\* a forecast has been analyzed in which two different hours raised the same
\* concern, both kept, and some hour raised none
C15_SameConcernInTwoHours ==
    /\ wpc = "analyzed"
    /\ \E k, l \in 1..Len(analysis.concerns) :
          k < l /\ analysis.concerns[k] = analysis.concerns[l]
    /\ \E i \in 1..Len(hour_scores) : C15_FailedCriteria(i) = {}

\* a uniformly ideal forecast has been analyzed: no hour fails a criterion and
\* the concerns list is empty
C15_IdealForecastNoConcerns ==
    /\ wpc = "analyzed"
    /\ \A i \in 1..Len(hour_scores) : C15_FailedCriteria(i) = {}
    /\ analysis.concerns = <<>>

\* speedPoints and densityPoints of C16, in thirds of a point
C16_SpeedPoints(speed) ==
    IF speed > 600 THEN 6 ELSE IF 400 < speed /\ speed <= 600 THEN 3 ELSE 0
C16_DensityPoints(density) ==
    IF density > 10 THEN 6 ELSE IF 5 < density /\ density <= 10 THEN 3 ELSE 0

\* C16: activity = min(10, min(kp/9, 1)*6 + speedPoints + densityPoints) with
\* strict band limits (speed 600 and density 10 earn 1 point each); kp 9,
\* speed 1000, density 20 give exactly 10; all-zero inputs give 0; a kp above 9
\* contributes no more than 6.
C16_ActivityFormula ==
    (apc = "done" /\ aurora # Err)
    => LET sw == solar_wind.value
           kp == geomagnetic.value.kp_index
           kp_thirds == IF 2 * kp < 18 THEN 2 * kp ELSE 18
           total == kp_thirds + C16_SpeedPoints(sw.speed)
                        + C16_DensityPoints(sw.density)
       IN /\ activity = (IF total < 30 THEN total ELSE 30)
          /\ (sw.speed = 600 /\ sw.density = 10 /\ kp = 0) => activity = 6
          /\ (kp = 9 /\ sw.speed = 1000 /\ sw.density = 20) => activity = 30
          /\ (kp = 0 /\ sw.speed = 0 /\ sw.density = 0) => activity = 0
          /\ kp > 9 => activity - C16_SpeedPoints(sw.speed)
                            - C16_DensityPoints(sw.density) <= 18

\* predict_aurora has computed the activity for a kp above 9 with the speed
\* and density at their band limits 600 and 10
C16_KpAboveNineAtBandLimits ==
    /\ apc = "done" /\ aurora # Err
    /\ geomagnetic.value.kp_index > 9
    /\ solar_wind.value.speed = 600 /\ solar_wind.value.density = 10
    /\ activity = 24

\* the conditions text C17 pairs with each intensity level
C17_ConditionsOfLevel ==
    [VeryHigh |-> "excellent viewing",
     High |-> "excellent viewing",
     Moderate |-> "good, aurora possible",
     Low |-> "aurora unlikely",
     Minimal |-> "poor viewing"]

\* C17: intensity_level follows the probability by strict thresholds, first
\* match from the top: > 0.8 Very High, > 0.6 High, > 0.4 Moderate, > 0.2 Low,
\* otherwise Minimal (exactly 0.8 is High, exactly 0.2 is Minimal), and the
\* conditions text always agrees with the intensity level.
C17_IntensityAndConditionsByThreshold ==
    (apc = "done" /\ aurora # Err)
    => LET f == aurora.value
           p == f.visibility_probability
       IN /\ f.intensity_level =
                (IF p > 24 THEN "VeryHigh"
                 ELSE IF p > 18 THEN "High"
                 ELSE IF p > 12 THEN "Moderate"
                 ELSE IF p > 6 THEN "Low"
                 ELSE "Minimal")
          /\ p = 24 => f.intensity_level = "High"
          /\ p = 6 => f.intensity_level = "Minimal"
          /\ f.conditions = C17_ConditionsOfLevel[f.intensity_level]

\* a forecast with probability exactly 0.8 has been produced, level High
C17_ProbabilityExactlyPointEight ==
    /\ apc = "done" /\ aurora # Err
    /\ aurora.value.visibility_probability = 24
    /\ aurora.value.intensity_level = "High"
    /\ aurora.value.conditions = "excellent viewing"

\* the hour an hour text "HH" reads as
HourOfText(text) == 10 * text[1] + text[2]
\* the inclusive range <<start, end>> an interval text reads as
RangeOfInterval(text) == <<HourOfText(text[1]), HourOfText(text[Len(text)])>>
\* the ranges the intervals of the current state read as
RangesShown == [k \in 1..Len(intervals) |-> RangeOfInterval(intervals[k])]

StrictlyAscending(q) == \A k \in 1..(Len(q) - 1) : q[k] < q[k + 1]

RECURSIVE ExpandRanges(_, _)
\* the hours the ranges R[k], R[k+1], ... cover, in order
ExpandRanges(R, k) ==
    IF k > Len(R) THEN <<>>
    ELSE [j \in 1..(R[k][2] - R[k][1] + 1) |-> R[k][1] + j - 1]
            \o ExpandRanges(R, k + 1)

\* C18: for a strictly ascending hour list the compression returns, in input
\* order, the maximal runs of consecutive hours: every input hour lies in
\* exactly one range, no range holds an hour that was not in the input, no two
\* adjacent ranges could be merged; [6,7,8,18,19,20] gives (6,8),(18,20), [5]
\* gives the single hour (5,5), the empty list gives no range.
C18_CompressionYieldsMaximalRuns ==
    (cpc # "idle" /\ StrictlyAscending(hours))
    => LET R == RangesShown
       IN /\ \A k \in 1..Len(R) :
                /\ R[k][1] <= R[k][2]
                /\ (R[k][1]..R[k][2]) \subseteq Range(hours)
                /\ Len(intervals[k]) = (IF R[k][1] = R[k][2] THEN 1 ELSE 2)
          /\ \A h \in Range(hours) :
                Cardinality({k \in 1..Len(R) : R[k][1] <= h /\ h <= R[k][2]}) = 1
          /\ \A k \in 1..(Len(R) - 1) : R[k][2] + 1 < R[k + 1][1]
          /\ hours = <<6, 7, 8, 18, 19, 20>> => R = << <<6, 8>>, <<18, 20>> >>
          /\ hours = <<5>> => (R = << <<5, 5>> >> /\ Len(intervals[1]) = 1)
          /\ hours = <<>> => intervals = <<>>

\* print_dashboard has compressed [6,7,8,18,19,20] into 06:00-08:00 and
\* 18:00-20:00
C18_MorningAndEveningRuns ==
    /\ cpc = "print_dashboard"
    /\ hours = <<6, 7, 8, 18, 19, 20>>
    /\ intervals = << <<<<0, 6>>, <<0, 8>>>>, <<<<1, 8>>, <<2, 0>>>> >>

\* C19: the compression never reorders its input and never joins hours across
\* midnight: where 23 is directly followed by 0 the run ending at 23 is closed
\* and a new run starts at 0; the block 22,23,0,1,2,3,4,5 gives exactly 22-23
\* and 0-5, in that order.
C19_NoWrapAcrossMidnight ==
    cpc # "idle"
    => LET R == RangesShown
       IN /\ ExpandRanges(R, 1) = hours
          /\ \A i \in 1..(Len(hours) - 1) :
                (hours[i] = 23 /\ hours[i + 1] = 0)
                => \E k \in 1..(Len(R) - 1) : R[k][2] = 23 /\ R[k + 1][1] = 0
          /\ hours = <<22, 23, 0, 1, 2, 3, 4, 5>>
                => R = << <<22, 23>>, <<0, 5>> >>

\* print_solar_data has compressed the aurora viewing block into 22:00-23:00
\* and 00:00-05:00
C19_NightBlockSplitAtMidnight ==
    /\ cpc = "print_solar_data"
    /\ hours = BestViewingHours
    /\ intervals = << <<<<2, 2>>, <<2, 3>>>>, <<<<0, 0>>, <<0, 5>>>> >>

\* C20: for a strictly ascending hour list, expanding the produced ranges back
\* into hours gives the original list, and compressing that expansion again
\* gives the same ranges.
C20_CompressionIdempotentUnderExpansion ==
    (cpc # "idle" /\ StrictlyAscending(hours))
    => LET expansion == ExpandRanges(RangesShown, 1)
       IN /\ expansion = hours
          /\ CompressHours(expansion) = intervals

\* a list with runs of one hour and of several hours has been compressed into
\* four intervals
C20_MixedRunsCompressed ==
    /\ cpc = "generate_solar_output"
    /\ hours = <<0, 1, 2, 5, 7, 8, 22>>
    /\ Len(intervals) = 4
    /\ ExpandRanges(RangesShown, 1) = hours

C22_GoldenHourNowClosedWindows ==
    pc = "await_aurora"
    => LET t == current_time
           w == golden_hour_info
           inside == (w.golden_hour_morning_start <= t /\ t <= w.golden_hour_morning_end)
                     \/ (w.golden_hour_evening_start <= t /\ t <= w.golden_hour_evening_end)
       IN /\ is_golden_hour_today <=> inside
          /\ t \in {w.golden_hour_morning_start, w.golden_hour_morning_end,
                     w.golden_hour_evening_start, w.golden_hour_evening_end}
                => is_golden_hour_today
          /\ ((t < w.golden_hour_morning_start \/ t > w.golden_hour_morning_end)
                /\ (t < w.golden_hour_evening_start \/ t > w.golden_hour_evening_end))
                => ~is_golden_hour_today

\* the flag has been computed true at the very end of the evening golden
\* window, outside the morning window
C22_AtEveningWindowEnd ==
    /\ pc = "await_aurora"
    /\ current_time = golden_hour_info.golden_hour_evening_end
    /\ current_time > golden_hour_info.golden_hour_morning_end
    /\ is_golden_hour_today

\* C23: for every computed sunrise and sunset the golden morning window is
\* sunrise - 1h .. sunrise + 1h, the golden evening window sunset - 1h ..
\* sunset + 1h, the blue morning window sunrise - 30m .. sunrise, the blue
\* evening window sunset .. sunset + 30m; each golden window lasts 2 hours and
\* each blue window 30 minutes.
C23_WindowsDerivedFromSunEvents ==
    gpc = "calculate_golden_hours"
    => LET w == golden_hours
       IN /\ w.golden_hour_morning_start = w.sunrise - Hour
          /\ w.golden_hour_morning_end = w.sunrise + Hour
          /\ w.golden_hour_evening_start = w.sunset - Hour
          /\ w.golden_hour_evening_end = w.sunset + Hour
          /\ w.blue_hour_morning_start = w.sunrise - HalfHour
          /\ w.blue_hour_morning_end = w.sunrise
          /\ w.blue_hour_evening_start = w.sunset
          /\ w.blue_hour_evening_end = w.sunset + HalfHour
          /\ w.golden_hour_morning_end - w.golden_hour_morning_start = 2 * Hour
          /\ w.golden_hour_evening_end - w.golden_hour_evening_start = 2 * Hour
          /\ w.blue_hour_morning_end - w.blue_hour_morning_start = HalfHour
          /\ w.blue_hour_evening_end - w.blue_hour_evening_start = HalfHour

\* the windows of a sixteen-hour day have been calculated outside demo mode
C23_LongDayWindowsCalculated ==
    /\ gpc = "calculate_golden_hours"
    /\ ~demo_mode
    /\ golden_hours.sunset - golden_hours.sunrise = 16 * Hour
    /\ golden_hours.blue_hour_evening_end = golden_hours.sunset + HalfHour

C24_IsWeatherHighlight(entry) == entry \in {"excellent weather", "good weather"}

\* C24: the summary holds exactly one weather entry: the 'excellent weather'
\* highlight for a score >= 8, the 'good weather' highlight for 6 <= score < 8,
\* and for a score < 6 one warning and no weather highlight; warnings is
\* non-empty iff the score is below 6.
C24_OneWeatherEntry ==
    (pc = "done" /\ result.ok)
    => LET summary == result.value
           score == summary.weather_score
           weather == SelectSeq(summary.key_highlights, C24_IsWeatherHighlight)
       IN /\ score >= 384
                => (weather = <<"excellent weather">> /\ summary.warnings = <<>>)
          /\ (288 <= score /\ score < 384)
                => (weather = <<"good weather">> /\ summary.warnings = <<>>)
          /\ score < 288
                => (weather = <<>> /\ Len(summary.warnings) = 1)
          /\ summary.warnings # <<>> <=> score < 288

\* a summary has been created for a weather score of exactly 6: the 'good
\* weather' highlight and no warning
C24_ScoreExactlySix ==
    /\ pc = "done" /\ result.ok
    /\ result.value.weather_score = 288
    /\ result.value.key_highlights[1] = "good weather"
    /\ result.value.warnings = <<>>

\* a summary has been created for a weather score between 5 and 6: one
\* warning
C24_WarningBelowSix ==
    /\ pc = "done" /\ result.ok
    /\ result.value.weather_score < 288
    /\ result.value.weather_score >= 240
    /\ Len(result.value.warnings) = 1

\* the tiers of the overall recommendation, worst first
C25_TierRank == [difficult |-> 0, moderate |-> 1, good |-> 2, excellent |-> 3]

\* the text C25 states for a weather score (in 48ths) and a golden-hour flag
C25_Text(score, golden) ==
    IF score >= 384 /\ golden THEN "excellent"
    ELSE IF score >= 336 THEN "good"
    ELSE IF score >= 240 THEN "moderate"
    ELSE "difficult"

\* C25: the overall recommendation depends only on the weather score and the
\* golden-hour flag: 'excellent' iff score >= 8 with golden hour, otherwise
\* 'good' iff score >= 7, otherwise 'moderate' iff score >= 5, otherwise
\* 'difficult'; a score >= 8 without golden hour is 'good', the aurora
\* probability never matters, and the tier never gets worse when the score
\* rises or the flag turns on.
C25_RecommendationByScoreAndFlag ==
    (pc = "done" /\ result.ok)
    => LET summary == result.value
           score == summary.weather_score
           golden == summary.is_golden_hour_today
           text == summary.overall_recommendation
       IN /\ text = C25_Text(score, golden)
          /\ (score >= 384 /\ ~golden) => text = "good"
          /\ \A higher \in score..(21 * HoursInForecast) :
                /\ C25_TierRank[DetermineOverallRecommendation(higher, golden)]
                      >= C25_TierRank[text]
                /\ C25_TierRank[DetermineOverallRecommendation(higher, TRUE)]
                      >= C25_TierRank[text]

\* a summary has been created for a score of at least 8 outside golden hour:
\* the text is 'good'
C25_EightWithoutGoldenHour ==
    /\ pc = "done" /\ result.ok
    /\ result.value.weather_score >= 384
    /\ ~result.value.is_golden_hour_today
    /\ result.value.overall_recommendation = "good"

\* a summary has been created for a score of exactly 8 in golden hour: the
\* text is 'excellent'
C25_ExactlyEightInGoldenHour ==
    /\ pc = "done" /\ result.ok
    /\ result.value.weather_score = 384
    /\ result.value.is_golden_hour_today
    /\ result.value.overall_recommendation = "excellent"

\* the positions of the valid records among the last LastRecords of the feed
C26_ValidAmongLast ==
    {i \in 1..Len(swepam) :
        /\ i > Len(swepam) - LastRecords
        /\ swepam[i].dsflag = 0
        /\ swepam[i].dens.some /\ swepam[i].speed.some
        /\ swepam[i].temperature.some}

\* C26: fetch_solar_wind_data uses the most recent record among the last 50
\* of the feed (all when there are at most 50) that has dsflag 0 and density,
\* speed and temperature present, and fails with 'No valid solar wind data
\* found' exactly when none of those records is valid.
C26_LatestValidRecordUsed ==
    (/\ apc = "fetch_solar_wind_data"
     /\ swepam # <<>>
     /\ (solar_wind.ok
            \/ solar_wind.error \notin {"HTTP", "Failed to parse solar wind JSON"}))
    => /\ solar_wind.ok
            => \E i \in C26_ValidAmongLast :
                  /\ \A j \in C26_ValidAmongLast : j <= i
                  /\ solar_wind.value.speed = swepam[i].speed.value
       /\ (~solar_wind.ok /\ solar_wind.error = "No valid solar wind data found")
            <=> C26_ValidAmongLast = {}

\* the coordinates of the run lie outside [-90, 90] x [-180, 180]
C27_CoordinatesOutOfRange ==
    latitude < -90 \/ latitude > 90 \/ longitude < -180 \/ longitude > 180

C27_SummaryGenerated == run_summary \notin {None, Err}

\* C27: in the main run nothing is constructed or fetched before the
\* coordinates are validated, and nothing ever is when they are out of range;
\* a failed summary generation ends the run in an error with no output at all;
\* once the summary is generated the run never ends in an error, whatever the
\* later weather fetch and aurora prediction answer: it reaches the tips,
\* which get 0.0 for each value whose fetch failed and the fetched value
\* otherwise, and it returns Ok.
C27_MainRunOrderAndDegradation ==
    /\ [](rpc = "main" => (services = {} /\ requests = 0 /\ output = <<>>))
    /\ [](C27_CoordinatesOutOfRange
            => (services = {} /\ requests = 0 /\ output = <<>>
                  /\ exit \in {"running", "Err"}))
    /\ []((rpc = "returned" /\ C27_CoordinatesOutOfRange) => exit = "Err")
    /\ [](run_summary = Err => (output = <<>> /\ exit = "Err"))
    /\ [](C27_SummaryGenerated => exit # "Err")
    /\ (C27_SummaryGenerated
          ~> (rpc = "returned" /\ exit = "Ok" /\ tips # None))
    /\ [](tips # None
            => /\ tips.weather_score =
                     (IF locals.weather = Err THEN 0 ELSE locals.weather.value)
               /\ tips.aurora_probability =
                     (IF locals.solar = Err THEN 0 ELSE locals.solar.value)
               /\ output[Len(output)] = "tips"
               /\ exit = "Ok")

\* a run whose weather fetch and aurora prediction both failed after the
\* summary has ended successfully with tips for 0.0 and 0.0
C27_BothLaterFetchesFailed ==
    /\ rpc = "returned"
    /\ exit = "Ok"
    /\ C27_SummaryGenerated
    /\ locals.weather = Err
    /\ locals.solar = Err
    /\ tips.weather_score = 0
    /\ tips.aurora_probability = 0

\* a run on an out-of-range longitude has returned its error
C27_RejectedCoordinates ==
    /\ rpc = "returned"
    /\ exit = "Err"
    /\ C27_CoordinatesOutOfRange
    /\ longitude = 181

\* C28: whatever the number n of samples, overall_score is the sum of the n
\* hourly scores divided by 24 (in 48ths: the sum of the half points), every
\* best hour is an index below n, an empty forecast gives 0.0 and no best
\* hour, and a single sample scoring at least 7 gives the one best hour 0.
C28_SumDividedByTwentyFour ==
    wpc = "analyzed"
    => LET n == Len(forecast.value)
       IN /\ Len(hour_scores) = n
          /\ 2 * HoursInForecast * analysis.overall_score
                = 48 * SumOver(hour_scores, 1..n)
          /\ \A k \in 1..Len(analysis.best_hours) :
                analysis.best_hours[k] \in 0..(n - 1)
          /\ (n = 0 => (analysis.overall_score = 0 /\ analysis.best_hours = <<>>))
          /\ ((n = 1 /\ hour_scores[1] >= 14) => analysis.best_hours = <<0>>)

\* a one-sample forecast whose hour scores at least 7 has been analyzed:
\* one best hour, and a score of that hour's points over 24
C28_SingleGoodHour ==
    /\ wpc = "analyzed"
    /\ Len(forecast.value) = 1
    /\ hour_scores[1] >= 14
    /\ analysis.best_hours = <<0>>
    /\ analysis.overall_score = hour_scores[1]
    /\ analysis.overall_score < 24

\* an empty forecast has been analyzed
C28_EmptyForecast ==
    /\ wpc = "analyzed"
    /\ forecast.value = <<>>
    /\ analysis.overall_score = 0

\* an hour passes the three checks of the claim: cloud cover at most 20 %,
\* visibility at least 10 km, precipitation probability at most 10 %
C29_HourPasses(weather) ==
    /\ weather.cloud_cover <= 20
    /\ weather.visibility >= 10000
    /\ weather.precipitation_probability <= 10

\* C29: is_suitable is true exactly when every hour of the forecast has cloud
\* cover <= 20, visibility >= 10 km and precipitation probability <= 10 (the
\* wind plays no part); cloud_cover_issues is empty exactly when is_suitable
\* is true; best_hours lists, in ascending order, exactly the hours that
\* pass the three checks themselves and have index >= 22 or <= 4.
C29_SuitableIffEveryHourPasses ==
    wpc = "analyze_astrophotography_conditions"
    => LET hourly == forecast.value
           passing == {i \in 1..Len(hourly) : C29_HourPasses(hourly[i])}
           night == {i - 1 : i \in {j \in passing : j - 1 >= 22 \/ j - 1 <= 4}}
       IN /\ astrophotography.is_suitable <=> (passing = 1..Len(hourly))
          /\ (astrophotography.cloud_cover_issues = <<>>)
                <=> astrophotography.is_suitable
          /\ astrophotography.best_hours = SortedSeq(night)

\* a forecast whose second hour fails a check has been analyzed: the result
\* is unsuitable although the passing first hour, windy, is a best hour
C29_BestHourInUnsuitableForecast ==
    /\ wpc = "analyze_astrophotography_conditions"
    /\ Len(forecast.value) = 2
    /\ forecast.value[1].wind_speed > 150
    /\ forecast.value[2].cloud_cover > 20
    /\ ~astrophotography.is_suitable
    /\ astrophotography.best_hours = <<0>>
    /\ astrophotography.cloud_cover_issues # <<>>

\* a windy forecast of a day at the limits of the three checks has been
\* analyzed: suitable, best hours 0..4 and 22, 23
C29_WindyDayAtTheLimits ==
    /\ wpc = "analyze_astrophotography_conditions"
    /\ Len(forecast.value) = HoursInForecast
    /\ \A i \in 1..HoursInForecast :
          /\ forecast.value[i].wind_speed > 150
          /\ forecast.value[i].cloud_cover = 20
          /\ forecast.value[i].visibility = 10000
          /\ forecast.value[i].precipitation_probability = 10
    /\ astrophotography.is_suitable
    /\ astrophotography.best_hours = <<0, 1, 2, 3, 4, 22, 23>>

\* C30: when generate_dashboard_output hands its values to the tips, the
\* weather score, the aurora probability and the golden-hour flag are the
\* values the summary of the same run reports (the probability of the tips is
\* kept in 300ths, that of the summary in 30ths).
C30_TipsUseSummaryValues ==
    tips # None
    => /\ tips.weather_score = run_summary.value.weather_score
       /\ tips.aurora_probability = 10 * run_summary.value.aurora_probability
       /\ tips.is_golden_hour = run_summary.value.is_golden_hour_today

\* the tips of a run are chosen for a weather score below 5 although the
\* summary of that run reports a score above 8
C30_TipsForBadWeatherSummaryExcellent ==
    /\ tips # None
    /\ run_summary.value.weather_score >= 384
    /\ tips.weather_score < 240

\* the summary reports the golden hour, the tips of the same run are chosen
\* without it: the clock has left the window between the two readings
C30_GoldenHourOverBetweenReadings ==
    /\ tips # None
    /\ run_summary.value.is_golden_hour_today
    /\ ~tips.is_golden_hour

\* the same forecast on both fetches, yet the probability of the tips is the
\* whole percent below the probability of the summary
C30_ProbabilityTruncatedToPercent ==
    /\ tips # None
    /\ locals.solar.value = 3 * TruncDiv(100 * run_summary.value.aurora_probability, 30)
    /\ tips.aurora_probability < 10 * run_summary.value.aurora_probability
====
